---- MODULE Spec2Model ----
(***************************************************************************)
(* Kontacto: the command registry, the tokenizer and the dispatcher        *)
(* (Kontacto.process_command / Kontacto.run), with the record collections  *)
(* the commands act on.                                                    *)
(*                                                                         *)
(* Python strings are TLA+ strings; a character is a string of length 1.   *)
(***************************************************************************)
EXTENDS Integers, Sequences, FiniteSets, TLC

(***************************************************************************)
(* Strings                                                                 *)
(***************************************************************************)

\* The printable ASCII characters in code-point order (the backquote, which a
\* TLA+ string cannot hold, is left out), preceded by the tab.
Ascii == "\t !\"#$%&'()*+,-./0123456789:;<=>?@ABCDEFGHIJKLMNOPQRSTUVWXYZ[\\]^_abcdefghijklmnopqrstuvwxyz{|}~"

UpperLetters == "ABCDEFGHIJKLMNOPQRSTUVWXYZ"

LowerLetters == "abcdefghijklmnopqrstuvwxyz"

CharAt(s, i) == SubSeq(s, i, i)

CharSet == {CharAt(Ascii, i) : i \in 1..Len(Ascii)}

\* The rank of a character in code-point order.
Ord == [c \in CharSet |-> CHOOSE i \in 1..Len(Ascii) : CharAt(Ascii, i) = c]

\* str.lower() on one character.
LowerChar == [c \in CharSet |->
                IF \E i \in 1..Len(UpperLetters) : CharAt(UpperLetters, i) = c
                THEN CharAt(LowerLetters, CHOOSE i \in 1..Len(UpperLetters) : CharAt(UpperLetters, i) = c)
                ELSE c]

RECURSIVE Lower(_)
\* str.lower(): each character replaced by its lower-case form (the string is
\* converted by halves).
Lower(s) ==
    IF s = "" THEN ""
    ELSE IF Len(s) = 1 THEN LowerChar[s]
    ELSE Lower(SubSeq(s, 1, Len(s) \div 2)) \o Lower(SubSeq(s, Len(s) \div 2 + 1, Len(s)))

\* s < t for Python strings (lexicographic by code point): at the first
\* position where they differ, s has ended or has the lesser character.
StrLess(s, t) ==
    \E i \in 1..Len(t) :
        /\ i <= Len(s) + 1
        /\ SubSeq(s, 1, i - 1) = SubSeq(t, 1, i - 1)
        /\ \/ i > Len(s)
           \/ Ord[CharAt(s, i)] < Ord[CharAt(t, i)]

\* sorted(list of str)
SortedStrings(list) == SortSeq(list, StrLess)

\* The keys of a dict as a list (some enumeration of the set: each key at the
\* position given by the number of keys that are less than it).
SetToSeq(S) ==
    LET placed == {<<x, 1 + Cardinality({y \in S : StrLess(y, x)})>> : x \in S}
    IN  SubSeq([k \in 1..Cardinality(S) |-> (CHOOSE p \in placed : p[2] = k)[1]],
               1, Cardinality(S))

NoDuplicates(list) ==
    \A i, j \in 1..Len(list) : i # j => list[i] # list[j]

\* The characters str.strip() and str.split() treat as whitespace, which are
\* also shlex's whitespace characters.
IsSpace(c) == c = " " \/ c = "\t"

RECURSIVE StripLeft(_)
StripLeft(s) ==
    IF Len(s) > 0 /\ IsSpace(CharAt(s, 1)) THEN StripLeft(SubSeq(s, 2, Len(s))) ELSE s

RECURSIVE StripRight(_)
StripRight(s) ==
    IF Len(s) > 0 /\ IsSpace(CharAt(s, Len(s)))
    THEN StripRight(SubSeq(s, 1, Len(s) - 1)) ELSE s

\* str.strip()
Strip(s) == StripRight(StripLeft(s))

\* str.split() with no separator: the maximal runs of non-whitespace, in the
\* order of their first characters.
Split(s) ==
    LET n == Len(s)
        NonSpace(i) == ~IsSpace(CharAt(s, i))
        starts == {i \in 1..n : NonSpace(i) /\ (i = 1 \/ ~NonSpace(i - 1))}
        RunEnd(i) == CHOOSE j \in i..n : /\ \A k \in i..j : NonSpace(k)
                                         /\ j = n \/ ~NonSpace(j + 1)
        Start(k) == CHOOSE i \in starts : Cardinality({j \in starts : j <= i}) = k
    IN  SubSeq([k \in 1..Cardinality(starts) |-> SubSeq(s, Start(k), RunEnd(Start(k)))],
               1, Cardinality(starts))

\* s.startswith(prefix)
StartsWith(s, prefix) ==
    Len(prefix) <= Len(s) /\ SubSeq(s, 1, Len(prefix)) = prefix

(***************************************************************************)
(* shlex.split (POSIX mode, whitespace_split, no comments)                 *)
(***************************************************************************)

IsQuote(c) == c = "'" \/ c = "\""

IsEscape(c) == c = "\\"

\* One pass of the loop of shlex.read_token on the character c ("" at the end
\* of the input). state is the lexer state: " " between tokens, "a" inside a
\* word, a quote character inside a quoted section, the backslash after an
\* escape character, "None" once the input is exhausted. parts are the tokens
\* read so far, token the token being built, quoted whether it holds a quoted
\* section. error: the ValueError raised ("No closing quotation", "No escaped
\* character").
ShlexStep(lexer, c) ==
    LET flushed == IF lexer.token # "" \/ lexer.quoted
                   THEN Append(lexer.parts, lexer.token) ELSE lexer.parts
    IN  CASE lexer.state = " " ->
                 IF c = "" THEN [lexer EXCEPT !.state = "None"]
                 ELSE IF IsSpace(c) THEN lexer
                 ELSE IF IsEscape(c) THEN [lexer EXCEPT !.state = c, !.escapedstate = "a"]
                 ELSE IF IsQuote(c) THEN [lexer EXCEPT !.state = c]
                 ELSE [lexer EXCEPT !.state = "a", !.token = c]
          [] IsQuote(lexer.state) ->
                 IF c = "" THEN [lexer EXCEPT !.state = "None", !.error = TRUE, !.parts = <<>>]
                 ELSE IF c = lexer.state THEN [lexer EXCEPT !.state = "a", !.quoted = TRUE]
                 ELSE IF IsEscape(c) /\ lexer.state = "\""
                      THEN [lexer EXCEPT !.state = c, !.escapedstate = lexer.state,
                                         !.quoted = TRUE]
                 ELSE [lexer EXCEPT !.token = @ \o c, !.quoted = TRUE]
          [] IsEscape(lexer.state) ->
                 IF c = "" THEN [lexer EXCEPT !.state = "None", !.error = TRUE, !.parts = <<>>]
                 ELSE LET kept == IF /\ IsQuote(lexer.escapedstate)
                                     /\ c # lexer.state /\ c # lexer.escapedstate
                                  THEN lexer.token \o lexer.state ELSE lexer.token
                      IN  [lexer EXCEPT !.state = lexer.escapedstate, !.token = kept \o c]
          [] OTHER -> \* state = "a"
                 IF c = "" THEN [lexer EXCEPT !.state = "None", !.parts = flushed]
                 ELSE IF IsSpace(c)
                      THEN [lexer EXCEPT !.state = " ", !.token = "", !.quoted = FALSE,
                                         !.parts = flushed]
                 ELSE IF IsQuote(c) THEN [lexer EXCEPT !.state = c]
                 ELSE IF IsEscape(c) THEN [lexer EXCEPT !.state = c, !.escapedstate = "a"]
                 ELSE [lexer EXCEPT !.token = @ \o c]

RECURSIVE ShlexScan(_, _, _)
\* shlex.read_token, called until the input is exhausted.
ShlexScan(s, i, lexer) ==
    IF lexer.state = "None" THEN [error |-> lexer.error, parts |-> lexer.parts]
    ELSE ShlexScan(s, i + 1, ShlexStep(lexer, IF i > Len(s) THEN "" ELSE CharAt(s, i)))

\* shlex.split(s)
ShlexSplit(s) ==
    ShlexScan(s, 1, [state |-> " ", escapedstate |-> " ", token |-> "", quoted |-> FALSE,
                     parts |-> <<>>, error |-> FALSE])

(***************************************************************************)
(* CommandRegistry                                                         *)
(***************************************************************************)

\* A dict as a function on its keys.
EmptyDict == [k \in {} |-> k]

\* d[key] = value: the new entry takes precedence over the one d has.
DictSet(d, key, value) == (key :> value) @@ d

\* The value get() returns for a missing command (Python's None).
NoCommand == [id |-> 0, name |-> "", aliases |-> <<>>, cls |-> "None", usage |-> ""]

RECURSIVE RegisterAliases(_, _, _)
\* The alias loop of register(): the first alias that is already a key of
\* _aliases raises; the aliases before it stay inserted.
RegisterAliases(als, name, rest) ==
    IF rest = <<>> THEN [aliases |-> als, error |-> "none"]
    ELSE IF Head(rest) \in DOMAIN als
         THEN [aliases |-> als, error |-> "AliasAlreadyRegistered"]
         ELSE RegisterAliases(DictSet(als, Head(rest), name), name, Tail(rest))

\* CommandRegistry.register(command): the registry after the call and the
\* ValueError it raised, if any.
RegisterMissingNameCheck(cmds, als, command) ==
    LET r == RegisterAliases(als, command.name, command.aliases)
    IN  [commands |-> DictSet(cmds, command.name, command),
         aliases  |-> r.aliases,
         error    |-> r.error]

Register(cmds, als, command) ==
    IF command.name \in DOMAIN cmds
    THEN [commands |-> cmds, aliases |-> als, error |-> "NameAlreadyRegistered"]
    ELSE LET r == RegisterAliases(als, command.name, command.aliases)
         IN  [commands |-> DictSet(cmds, command.name, command),
              aliases  |-> r.aliases,
              error    |-> r.error]

\* CommandRegistry.get(command_name)
RegistryGet(cmds, als, command_name) ==
    LET resolved == IF command_name \in DOMAIN als THEN als[command_name]
                    ELSE command_name
    IN  IF resolved \in DOMAIN cmds THEN cmds[resolved] ELSE NoCommand

\* CommandRegistry.get_command_names()
GetCommandNames(cmds, als) ==
    SortedStrings(SetToSeq(DOMAIN cmds) \o SetToSeq(DOMAIN als))

\* CommandRegistry.get_all_commands()
GetAllCommands(cmds) == {cmds[n] : n \in DOMAIN cmds}

(***************************************************************************)
(* utils/fuzzy_matcher.py                                                  *)
(***************************************************************************)

Max(a, b) == IF a >= b THEN a ELSE b

RECURSIVE LcsNextRow(_, _, _, _, _)
\* One row of the longest-common-subsequence table: prev is the row of the
\* characters before c, row the entries of this row for t[1..j-1].
LcsNextRow(prev, c, t, j, row) ==
    IF j > Len(t) THEN row
    ELSE LET v == IF c = CharAt(t, j) THEN prev[j] + 1
                  ELSE Max(prev[j + 1], row[j])
             next == Append(row, v)
         IN  \* (the test makes the row a value before it is passed on)
             IF Len(next) = j + 1 THEN LcsNextRow(prev, c, t, j + 1, next) ELSE next

RECURSIVE LcsRows(_, _, _, _)
LcsRows(s, t, i, prev) ==
    IF i > Len(s) THEN prev[Len(t) + 1]
    ELSE LET row == LcsNextRow(prev, CharAt(s, i), t, 1, <<0>>)
         IN  IF Len(row) = Len(t) + 1 THEN LcsRows(s, t, i + 1, row) ELSE 0

\* The length of a longest common subsequence of s and t.
LcsLength(s, t) == LcsRows(s, t, 1, [j \in 1..(Len(t) + 1) |-> 0])

\* fuzz.ratio(s, t) / 100.0 as an exact fraction: the normalized Indel
\* similarity 1 - (len(s) + len(t) - 2 * lcs) / (len(s) + len(t)), which is
\* 1 for two empty strings.
\* (mutant of FuzzRatio: two empty strings have nothing in common)
FuzzRatioEmptyIsZero(s, t) ==
    IF Len(s) + Len(t) = 0 THEN [num |-> 0, den |-> 1]
    ELSE [num |-> 2 * LcsLength(s, t), den |-> Len(s) + Len(t)]

FuzzRatio(s, t) ==
    IF Len(s) + Len(t) = 0 THEN [num |-> 1, den |-> 1]
    ELSE [num |-> 2 * LcsLength(s, t), den |-> Len(s) + Len(t)]

RatioLess(a, b) == a.num * b.den < b.num * a.den

RatioLeq(a, b) == a.num * b.den <= b.num * a.den

\* The default threshold of find_best_match, 0.6.
DefaultThreshold == [num |-> 3, den |-> 5]

\* Python's None where a str is expected.
NoneStr == [found |-> FALSE, value |-> ""]

\* The loop of find_best_match, which starts with best_match = None and
\* best_ratio = 0.0: a candidate replaces the best one only if its ratio is
\* strictly greater than best_ratio, and reaches the threshold. best_ratio is
\* at every iteration the greatest ratio that has reached the threshold so far
\* (or 0.0), so assigned is the set of iterations that assign best_match; the
\* last of them gives the value returned.
BestMatchLoop(query_lower, candidates, threshold) ==
    LET n == Len(candidates)
        ratio == SubSeq([i \in 1..n |-> FuzzRatio(query_lower, Lower(candidates[i]))], 1, n)
        reached == {i \in 1..n : RatioLeq(threshold, ratio[i])}
        assigned == {i \in reached :
                        /\ RatioLess([num |-> 0, den |-> 1], ratio[i])
                        /\ \A j \in reached : j < i => RatioLess(ratio[j], ratio[i])}
    IN  IF assigned = {} THEN NoneStr
        ELSE [found |-> TRUE,
              value |-> candidates[CHOOSE i \in assigned : \A j \in assigned : j <= i]]

\* (mutant of FindBestMatch: the threshold is not applied)
FindBestMatchNoThreshold(query, candidates, threshold) ==
    IF candidates = <<>> THEN NoneStr
    ELSE BestMatchLoop(Lower(query), candidates, [num |-> 0, den |-> 1])

\* find_best_match(query, candidates, threshold)
FindBestMatch(query, candidates, threshold) ==
    IF candidates = <<>> THEN NoneStr
    ELSE BestMatchLoop(Lower(query), candidates, threshold)

Min(a, b) == IF a <= b THEN a ELSE b

\* The loop of find_suggestions: the list of (candidate, ratio) pairs.
ScoreAll(query_lower, candidates) ==
    SubSeq([i \in 1..Len(candidates) |->
               [candidate |-> candidates[i],
                ratio |-> FuzzRatio(query_lower, Lower(candidates[i]))]],
           1, Len(candidates))

\* suggestions.sort(key=lambda x: x[1], reverse=True): the sort is stable, so
\* pairs of equal ratio keep the order they have in the list.
SortByRatioDescending(suggestions) ==
    LET n == Len(suggestions)
        Before(i, j) ==
            \/ RatioLess(suggestions[j].ratio, suggestions[i].ratio)
            \/ /\ ~RatioLess(suggestions[i].ratio, suggestions[j].ratio)
               /\ i < j
        place == [i \in 1..n |-> 1 + Cardinality({j \in 1..n : Before(j, i)})]
    IN  [k \in 1..n |-> suggestions[CHOOSE i \in 1..n : place[i] = k]]

\* find_suggestions(query, candidates, max_suggestions)
FindSuggestions(query, candidates, max_suggestions) ==
    IF candidates = <<>> THEN <<>>
    ELSE LET suggestions == ScoreAll(Lower(query), candidates)
             sorted == SortByRatioDescending(suggestions)
         IN  SubSeq(sorted, 1, Min(max_suggestions, Len(sorted)))

\* is_partial_match(query, candidate)
IsPartialMatch(query, candidate) == StartsWith(Lower(candidate), Lower(query))

\* [x for x in list if keep(x)] with keep given as the set of kept indices.
\* The k-th element of the result is the element at the k-th kept index.
Filter(list, kept) ==
    LET at == {i \in 1..Len(list) : i \in kept}
    IN  SubSeq([k \in 1..Cardinality(at) |->
                   list[CHOOSE i \in at : Cardinality({j \in at : j <= i}) = k]],
               1, Cardinality(at))

\* The floor of get_command_suggestions, 0.4.
SuggestionFloor == [num |-> 2, den |-> 5]

\* The number of suggestions get_command_suggestions returns at most.
MaxSuggestions == 3

\* (mutant of GetCommandSuggestions: the floor is met by a ratio equal to it)
GetCommandSuggestionsFloorIncluded(input_text, available_commands) ==
    LET prefix_matches ==
            Filter(available_commands,
                   {i \in 1..Len(available_commands) :
                        IsPartialMatch(input_text, available_commands[i])})
    IN  IF prefix_matches # <<>>
        THEN SubSeq(prefix_matches, 1, Min(MaxSuggestions, Len(prefix_matches)))
        ELSE LET fuzzy_suggestions ==
                     FindSuggestions(input_text, available_commands, MaxSuggestions)
                 kept == Filter(fuzzy_suggestions,
                                {i \in 1..Len(fuzzy_suggestions) :
                                     RatioLeq(SuggestionFloor, fuzzy_suggestions[i].ratio)})
             IN  [i \in 1..Len(kept) |-> kept[i].candidate]

\* (mutant of GetCommandSuggestions: every prefix match is returned)
GetCommandSuggestionsUncapped(input_text, available_commands) ==
    LET prefix_matches ==
            Filter(available_commands,
                   {i \in 1..Len(available_commands) :
                        IsPartialMatch(input_text, available_commands[i])})
    IN  IF prefix_matches # <<>>
        THEN prefix_matches
        ELSE LET fuzzy_suggestions ==
                     FindSuggestions(input_text, available_commands, MaxSuggestions)
                 kept == Filter(fuzzy_suggestions,
                                {i \in 1..Len(fuzzy_suggestions) :
                                     RatioLess(SuggestionFloor, fuzzy_suggestions[i].ratio)})
             IN  [i \in 1..Len(kept) |-> kept[i].candidate]

\* get_command_suggestions(input_text, available_commands)
GetCommandSuggestions(input_text, available_commands) ==
    LET prefix_matches ==
            Filter(available_commands,
                   {i \in 1..Len(available_commands) :
                        IsPartialMatch(input_text, available_commands[i])})
    IN  IF prefix_matches # <<>>
        THEN SubSeq(prefix_matches, 1, Min(MaxSuggestions, Len(prefix_matches)))
        ELSE LET fuzzy_suggestions ==
                     FindSuggestions(input_text, available_commands, MaxSuggestions)
                 kept == Filter(fuzzy_suggestions,
                                {i \in 1..Len(fuzzy_suggestions) :
                                     RatioLess(SuggestionFloor, fuzzy_suggestions[i].ratio)})
             IN  [i \in 1..Len(kept) |-> kept[i].candidate]

\* (mutant of ParseCommandInput: the command token is not lowercased)
ParseCommandInputCaseSensitive(input_text, command_aliases) ==
    LET lexed == ShlexSplit(Strip(input_text))
        parts == IF lexed.error THEN Split(Strip(input_text)) ELSE lexed.parts
    IN  IF parts = <<>> THEN [command |-> "", args |-> <<>>]
        ELSE [command |-> IF parts[1] \in DOMAIN command_aliases
                          THEN command_aliases[parts[1]] ELSE parts[1],
              args |-> Tail(parts)]

\* parse_command_input(input_text, command_aliases)
ParseCommandInput(input_text, command_aliases) ==
    LET lexed == ShlexSplit(Strip(input_text))
        parts == IF lexed.error THEN Split(Strip(input_text)) ELSE lexed.parts
    IN  IF parts = <<>> THEN [command |-> "", args |-> <<>>]
        ELSE LET command == Lower(parts[1])
             IN  [command |-> IF command \in DOMAIN command_aliases
                              THEN command_aliases[command] ELSE command,
                  args |-> Tail(parts)]

(***************************************************************************)
(* The commands Kontacto registers                                         *)
(***************************************************************************)

\* A command object: id tells the instances apart, cls is its class.
Command(id, cls, name, als, usage) ==
    [id |-> id, name |-> name, aliases |-> als, cls |-> cls, usage |-> usage]

\* The commands of Kontacto._register_commands and _add_builtin_commands, in
\* the order they are registered.
BuiltinCommands == <<
    Command(1, "AddContactCommand", "add-contact", <<"ac", "new-contact">>,
            "add-contact <name> [--address=<address>] [--email=<email>] [--phone=<phone>] [--birthday=<date>]"),
    Command(2, "ListContactsCommand", "list-contacts", <<"lc", "contacts">>,
            "list-contacts"),
    Command(3, "SearchContactsCommand", "search-contacts", <<"sc", "find-contacts">>,
            "search-contacts <query>"),
    Command(4, "EditContactCommand", "edit-contact", <<"ec", "update-contact">>,
            "edit-contact <name> [field] [value]"),
    Command(5, "DeleteContactCommand", "delete-contact", <<"dc", "remove-contact">>,
            "delete-contact <name>"),
    Command(6, "UpcomingBirthdaysCommand", "birthdays", <<"bd", "upcoming-birthdays">>,
            "birthdays <days>"),
    Command(7, "GenerateContactsCommand", "generate-contacts", <<"gc", "random-contacts">>,
            "generate-contacts [count]"),
    Command(8, "CleanContactsCommand", "clean-contacts", <<"cc", "clear-contacts">>,
            "clean-contacts"),
    Command(9, "AddNoteCommand", "add-note", <<"an", "new-note">>,
            "add-note <content> [tag1] [tag2] ..."),
    Command(10, "ListNotesCommand", "list-notes", <<"ln", "notes">>,
            "list-notes"),
    Command(11, "SearchNotesCommand", "search-notes", <<"sn", "find-notes">>,
            "search-notes <query>"),
    Command(12, "SearchByTagCommand", "search-tag", <<"st", "tag">>,
            "search-tag <tag>"),
    Command(13, "EditNoteCommand", "edit-note", <<"en", "update-note">>,
            "edit-note <search-query> <new-content>"),
    Command(14, "AddTagCommand", "add-tag", <<"at">>,
            "add-tag <search-query> <tag>"),
    Command(15, "RemoveTagCommand", "remove-tag", <<"rt">>,
            "remove-tag <search-query> <tag>"),
    Command(16, "DeleteNoteCommand", "delete-note", <<"dn", "remove-note">>,
            "delete-note <search-query>"),
    Command(17, "ListTagsCommand", "list-tags", <<"lt", "tags">>,
            "list-tags"),
    Command(18, "NotesByTagCommand", "notes-by-tag", <<"nbt", "grouped">>,
            "notes-by-tag"),
    Command(19, "GenerateNotesCommand", "generate-notes", <<"gn", "random-notes">>,
            "generate-notes [count]"),
    Command(20, "CleanNotesCommand", "clean-notes", <<"cn", "clear-notes">>,
            "clean-notes"),
    Command(21, "CleanTagsCommand", "clean-tags", <<"ct", "clear-tags">>,
            "clean-tags"),
    Command(22, "HelpCommand", "help", <<"h", "?">>,
            "help [command]"),
    Command(23, "ExitCommand", "exit", <<"quit", "q", "bye">>,
            "exit"),
    Command(24, "ClearCommand", "clear", <<"cls">>,
            "clear")
>>

RECURSIVE RegisterAll(_, _, _, _)
\* register() for each command of the list; the first ValueError ends it.
RegisterAll(cmds, als, list, i) ==
    IF i > Len(list) THEN [commands |-> cmds, aliases |-> als, error |-> "none"]
    ELSE LET r == Register(cmds, als, list[i])
         IN  IF r.error # "none" THEN r
             ELSE RegisterAll(r.commands, r.aliases, list, i + 1)

\* (mutant of RegisterCommands: add-contact is registered a second time)
RegisterCommandsTwice ==
    RegisterAll(EmptyDict, EmptyDict, BuiltinCommands \o <<BuiltinCommands[1]>>, 1)

\* Kontacto._register_commands() on the empty registry.
RegisterCommands == RegisterAll(EmptyDict, EmptyDict, BuiltinCommands, 1)

\* A command class that is not part of Kontacto: a BaseCommand subclass that
\* overrides validate_args and whose execute may raise, registered by the
\* embedding code (as the tests patch commands).
ExtensionCommand(id) == Command(id, "Extension", "ext", <<"x">>, "ext <arg>")

(***************************************************************************)
(* Console output and exceptions                                           *)
(***************************************************************************)

\* One call of Console.error / info / success / warning / header or print.
Msg(kind, text) == [kind |-> kind, text |-> text]

NoException == [type |-> "none", msg |-> ""]

Exc(type, msg) == [type |-> type, msg |-> msg]

(***************************************************************************)
(* models/note.py                                                          *)
(***************************************************************************)

Digits == "0123456789"

IsDigit(c) == \E i \in 1..Len(Digits) : CharAt(Digits, i) = c

IsAlpha(c) ==
    \/ \E i \in 1..Len(LowerLetters) : CharAt(LowerLetters, i) = c
    \/ \E i \in 1..Len(UpperLetters) : CharAt(UpperLetters, i) = c

\* str.isalnum() on one character
IsAlnum(c) == IsAlpha(c) \/ IsDigit(c)

RECURSIVE NormalizeChars(_, _)
\* The last two steps of _normalize_tag: spaces become hyphens, then only
\* alphanumerics, hyphens and underscores are kept.
NormalizeChars(s, i) ==
    IF i > Len(s) THEN ""
    ELSE LET c == IF CharAt(s, i) = " " THEN "-" ELSE CharAt(s, i)
         IN  (IF IsAlnum(c) \/ c = "-" \/ c = "_" THEN c ELSE "")
                 \o NormalizeChars(s, i + 1)

\* Note._normalize_tag(tag)
NormalizeTag(tag) == NormalizeChars(Lower(Strip(tag)), 1)

RECURSIVE AddTags(_, _, _)
\* add_tag for each tag of the list; the first empty normalized tag raises.
AddTags(tagset, tags, i) ==
    IF i > Len(tags) THEN [error |-> NoException, tags |-> tagset]
    ELSE LET tag == NormalizeTag(tags[i])
         IN  IF tag = ""
             THEN [error |-> Exc("ValidationError", "Tag cannot be empty"), tags |-> tagset]
             ELSE AddTags(tagset \cup {tag}, tags, i + 1)

\* Note(content, tags), with uid the id BaseModel.__init__ draws.
NewNote(content, tags, uid) ==
    IF Strip(content) = ""
    THEN [error |-> Exc("ValidationError", "Note content cannot be empty"),
          note |-> [id |-> uid, content |-> "", tags |-> {}]]
    ELSE LET added == AddTags({}, tags, 1)
         IN  [error |-> added.error,
              note |-> [id |-> uid, content |-> Strip(content), tags |-> added.tags]]

(***************************************************************************)
(* utils/validators.py                                                     *)
(***************************************************************************)

\* sub in s
Contains(s, sub) ==
    \E i \in 1..(Len(s) - Len(sub) + 1) : SubSeq(s, i, i + Len(sub) - 1) = sub

\* The position of the first occurrence of the character c in s, 0 if none.
Find(s, c) ==
    IF \E i \in 1..Len(s) : CharAt(s, i) = c
    THEN CHOOSE i \in 1..Len(s) :
             CharAt(s, i) = c /\ \A j \in 1..(i - 1) : CharAt(s, j) # c
    ELSE 0

AllDigits(s) == \A i \in 1..Len(s) : IsDigit(CharAt(s, i))

AllAlpha(s) == \A i \in 1..Len(s) : IsAlpha(CharAt(s, i))

RECURSIVE StrToNat(_)
\* int(s) for a string of digits
StrToNat(s) ==
    IF s = "" THEN 0
    ELSE 10 * StrToNat(SubSeq(s, 1, Len(s) - 1))
         + (CHOOSE d \in 0..9 : CharAt(Digits, d + 1) = CharAt(s, Len(s)))

RECURSIVE DigitsAndPlus(_)
\* re.sub(r"[^\d+]", "", phone): the digits and plus signs of phone (the
\* string is filtered by halves).
DigitsAndPlus(s) ==
    IF s = "" THEN ""
    ELSE IF Len(s) = 1 THEN (IF IsDigit(s) \/ s = "+" THEN s ELSE "")
    ELSE DigitsAndPlus(SubSeq(s, 1, Len(s) \div 2))
         \o DigitsAndPlus(SubSeq(s, Len(s) \div 2 + 1, Len(s)))

\* The five patterns of validate_phone, matched against the whole string.
PhonePatterns(cleaned) ==
    LET n == Len(cleaned)
        rest == IF n > 0 /\ CharAt(cleaned, 1) = "+" THEN SubSeq(cleaned, 2, n) ELSE cleaned
    IN  \/ \* ^\+?1?\d{10}$
           /\ AllDigits(rest)
           /\ Len(rest) = 10 \/ (Len(rest) = 11 /\ CharAt(rest, 1) = "1")
        \/ \* ^\+\d{1,3}\d{7,14}$
           /\ rest # cleaned
           /\ AllDigits(rest)
           /\ Len(rest) >= 8 /\ Len(rest) <= 17
        \/ \* ^\d{7,15}$
           /\ AllDigits(cleaned)
           /\ n >= 7 /\ n <= 15
        \/ \* ^\d{3}-\d{4}$
           /\ n = 8
           /\ AllDigits(SubSeq(cleaned, 1, 3)) /\ CharAt(cleaned, 4) = "-"
           /\ AllDigits(SubSeq(cleaned, 5, 8))
        \/ \* ^\d{3}-\d{3}-\d{4}$
           /\ n = 12
           /\ AllDigits(SubSeq(cleaned, 1, 3)) /\ CharAt(cleaned, 4) = "-"
           /\ AllDigits(SubSeq(cleaned, 5, 7)) /\ CharAt(cleaned, 8) = "-"
           /\ AllDigits(SubSeq(cleaned, 9, 12))

\* validate_phone(phone): the normalized number, or the ValidationError.
ValidatePhone(phone) ==
    LET cleaned == DigitsAndPlus(phone)
    IN  IF PhonePatterns(cleaned)
        THEN [error |-> NoException, value |-> cleaned]
        ELSE [error |-> Exc("ValidationError", "Invalid phone number format: " \o phone),
              value |-> ""]

\* The characters [a-zA-Z0-9._%+-] and [a-zA-Z0-9.-] of the email pattern.
IsLocalChar(c) == IsAlnum(c) \/ c \in {".", "_", "%", "+", "-"}

IsDomainChar(c) == IsAlnum(c) \/ c \in {".", "-"}

\* ^[a-zA-Z0-9._%+-]+@[a-zA-Z0-9.-]+\.[a-zA-Z]{2,}$
EmailPattern(email) ==
    LET at == Find(email, "@")
        n == Len(email)
    IN  /\ at > 1
        /\ \A i \in 1..(at - 1) : IsLocalChar(CharAt(email, i))
        /\ \E dot \in (at + 2)..(n - 2) :
               /\ CharAt(email, dot) = "."
               /\ \A i \in (at + 1)..(dot - 1) : IsDomainChar(CharAt(email, i))
               /\ AllAlpha(SubSeq(email, dot + 1, n))

\* validate_email(email): the email in lower case, or the ValidationError.
ValidateEmail(email) ==
    IF EmailPattern(email)
    THEN [error |-> NoException, value |-> Lower(email)]
    ELSE [error |-> Exc("ValidationError", "Invalid email format: " \o email), value |-> ""]

\* A datetime.date; NoDate is None.
Date(year, month, day) == [year |-> year, month |-> month, day |-> day]

NoDate == Date(0, 0, 0)

DateLess(a, b) ==
    \/ a.year < b.year
    \/ a.year = b.year /\ a.month < b.month
    \/ a.year = b.year /\ a.month = b.month /\ a.day < b.day

IsLeap(year) == year % 4 = 0 /\ (year % 100 # 0 \/ year % 400 = 0)

DaysInMonth(year, month) ==
    IF month = 2 THEN (IF IsLeap(year) THEN 29 ELSE 28)
    ELSE IF month \in {4, 6, 9, 11} THEN 30 ELSE 31

\* date.today(): the day the application runs.
Today == Date(2026, 11, 1)

\* The parts of s between the occurrences of the character sep.
SplitOn(s, sep) ==
    LET n == Len(s)
        cuts == {0, n + 1} \cup {i \in 1..n : CharAt(s, i) = sep}
        Cut(k) == CHOOSE i \in cuts : Cardinality({j \in cuts : j < i}) = k
    IN  SubSeq([k \in 1..(Cardinality(cuts) - 1) |-> SubSeq(s, Cut(k - 1) + 1, Cut(k) - 1)],
               1, Cardinality(cuts) - 1)

\* What the directives %d, %m and %Y of strptime match.
MatchesDay(s) ==
    \/ Len(s) = 1 /\ AllDigits(s) /\ s # "0"
    \/ /\ Len(s) = 2
       /\ \/ CharAt(s, 1) \in {"0", " "} /\ IsDigit(CharAt(s, 2)) /\ CharAt(s, 2) # "0"
          \/ AllDigits(s) /\ StrToNat(s) >= 10 /\ StrToNat(s) <= 31

MatchesMonth(s) ==
    \/ Len(s) = 1 /\ AllDigits(s) /\ s # "0"
    \/ /\ Len(s) = 2 /\ AllDigits(s)
       /\ StrToNat(s) >= 1 /\ StrToNat(s) <= 12

MatchesYear(s) == Len(s) = 4 /\ AllDigits(s)

\* datetime.strptime(s, fmt).date() for a format of three numeric fields
\* joined by the character sep; order is the position of the year, the month
\* and the day among the fields. error: strptime raised ValueError.
Strptime(s, sep, order) ==
    LET fields == SplitOn(s, sep)
        year == StrToNat(fields[order.year])
        month == StrToNat(fields[order.month])
        day == StrToNat(DigitsAndPlus(fields[order.day]))
    IN  IF /\ Len(fields) = 3
           /\ MatchesYear(fields[order.year])
           /\ MatchesMonth(fields[order.month])
           /\ MatchesDay(fields[order.day])
           /\ year >= 1
           /\ day <= DaysInMonth(year, month)
        THEN [error |-> FALSE, date |-> Date(year, month, day)]
        ELSE [error |-> TRUE, date |-> NoDate]

\* The formats of parse_date, in the order it tries them: %Y-%m-%d, %d-%m-%Y,
\* %d/%m/%Y, %m/%d/%Y, %Y.%m.%d, %d.%m.%Y.
DateFormats ==
    <<[sep |-> "-", order |-> [year |-> 1, month |-> 2, day |-> 3]],
      [sep |-> "-", order |-> [year |-> 3, month |-> 2, day |-> 1]],
      [sep |-> "/", order |-> [year |-> 3, month |-> 2, day |-> 1]],
      [sep |-> "/", order |-> [year |-> 3, month |-> 1, day |-> 2]],
      [sep |-> ".", order |-> [year |-> 1, month |-> 2, day |-> 3]],
      [sep |-> ".", order |-> [year |-> 3, month |-> 2, day |-> 1]]>>

\* parse_date(date_string): the date the first matching format gives, or
\* NoDate.
ParseDate(date_string) ==
    LET parsed == [k \in 1..Len(DateFormats) |->
                       Strptime(date_string, DateFormats[k].sep, DateFormats[k].order)]
        matching == {k \in 1..Len(DateFormats) : ~parsed[k].error}
    IN  IF matching = {} THEN NoDate
        ELSE parsed[CHOOSE k \in matching : \A j \in matching : k <= j].date

\* validate_birthday(birthday)
ValidateBirthday(birthday) ==
    IF DateLess(Today, birthday)
    THEN Exc("ValidationError", "Birthday cannot be in the future")
    ELSE IF Today.year - birthday.year > 150
    THEN Exc("ValidationError", "Age cannot exceed 150 years")
    ELSE NoException

(***************************************************************************)
(* models/contact.py                                                       *)
(***************************************************************************)

InList(list, x) == \E i \in 1..Len(list) : list[i] = x

\* list.remove(x): the list without the first occurrence of x.
ListRemove(list, x) ==
    LET first == CHOOSE i \in 1..Len(list) :
                     list[i] = x /\ \A j \in 1..(i - 1) : list[j] # x
    IN  SubSeq(list, 1, first - 1) \o SubSeq(list, first + 1, Len(list))

\* What a method of Contact leaves behind: the contact, and the
\* ValidationError it raised, if any.
Edited(contact, error) == [contact |-> contact, error |-> error]

\* Contact.birthday = value
SetBirthday(contact, value) ==
    IF value # NoDate
    THEN IF ValidateBirthday(value) # NoException
         THEN Edited(contact, ValidateBirthday(value))
         ELSE Edited([contact EXCEPT !.birthday = value], NoException)
    ELSE Edited([contact EXCEPT !.birthday = NoDate], NoException)

\* Contact(name, address, birthday), with uid the id BaseModel.__init__ draws.
NewContact(name, address, birthday, uid) ==
    LET contact == [id |-> uid, name |-> name, address |-> address,
                    phones |-> <<>>, emails |-> <<>>, birthday |-> NoDate]
    IN  IF birthday # NoDate THEN SetBirthday(contact, birthday)
        ELSE Edited(contact, NoException)

\* Contact.name = value
SetName(contact, value) ==
    IF Strip(value) = ""
    THEN Edited(contact, Exc("ValidationError", "Name cannot be empty"))
    ELSE Edited([contact EXCEPT !.name = Strip(value)], NoException)

\* Contact.address = value
SetAddress(contact, value) == Edited([contact EXCEPT !.address = Strip(value)], NoException)

\* Contact.add_phone(phone)
AddPhone(contact, phone) ==
    LET validated == ValidatePhone(phone)
    IN  IF validated.error # NoException THEN Edited(contact, validated.error)
        ELSE IF InList(contact.phones, validated.value)
        THEN Edited(contact, Exc("ValidationError", "Phone " \o phone \o " already exists"))
        ELSE Edited([contact EXCEPT !.phones = Append(@, validated.value)], NoException)

\* Contact.remove_phone(phone)
RemovePhone(contact, phone) ==
    LET validated == ValidatePhone(phone)
    IN  IF validated.error # NoException THEN Edited(contact, validated.error)
        ELSE IF ~InList(contact.phones, validated.value)
        THEN Edited(contact, Exc("ValidationError", "Phone " \o phone \o " not found"))
        ELSE Edited([contact EXCEPT !.phones = ListRemove(@, validated.value)], NoException)

\* Contact.add_email(email)
AddEmail(contact, email) ==
    LET validated == ValidateEmail(email)
    IN  IF validated.error # NoException THEN Edited(contact, validated.error)
        ELSE IF InList(contact.emails, validated.value)
        THEN Edited(contact, Exc("ValidationError", "Email " \o email \o " already exists"))
        ELSE Edited([contact EXCEPT !.emails = Append(@, validated.value)], NoException)

\* Contact.remove_email(email)
RemoveEmail(contact, email) ==
    LET validated == ValidateEmail(email)
    IN  IF validated.error # NoException THEN Edited(contact, validated.error)
        ELSE IF ~InList(contact.emails, validated.value)
        THEN Edited(contact, Exc("ValidationError", "Email " \o email \o " not found"))
        ELSE Edited([contact EXCEPT !.emails = ListRemove(@, validated.value)], NoException)

\* str(date): the ISO form YYYY-MM-DD.
Padded(n, width) ==
    SubSeq("0000", 1, width - Len(ToString(n))) \o ToString(n)

DateStr(d) == Padded(d.year, 4) \o "-" \o Padded(d.month, 2) \o "-" \o Padded(d.day, 2)

\* Contact.matches_search(query)
MatchesSearch(contact, query) ==
    \/ Contains(Lower(contact.name), Lower(query))
    \/ Contains(Lower(contact.address), Lower(query))
    \/ \E i \in 1..Len(contact.phones) : Contains(contact.phones[i], query)
    \/ \E i \in 1..Len(contact.emails) : Contains(Lower(contact.emails[i]), Lower(query))
    \/ contact.birthday # NoDate /\ Contains(DateStr(contact.birthday), query)

(***************************************************************************)
(* repositories: the stored list of a ContactRepository / NoteRepository   *)
(***************************************************************************)

\* A data file that does not exist.
NoFile == [kind |-> "absent", items |-> <<>>]

\* The data files before anything was saved.
NoFiles == [contacts |-> NoFile, notes |-> NoFile]

\* BaseRepository.save_data(data): the file holds the pickled list, the
\* objects as they are when it is written.
SaveData(data) == [kind |-> "objects", items |-> data]

\* BaseRepository.exists(item_id)
RepoExists(items, item_id) == \E i \in 1..Len(items) : items[i].id = item_id

\* ContactRepository.add / NoteRepository.add on the repository whose list
\* is items and whose data file holds file.
RepoAdd(items, file, item) ==
    IF RepoExists(items, item.id)
    THEN [error |-> Exc("ValueError", "already exists"), items |-> items, file |-> file]
    ELSE [error |-> NoException, items |-> Append(items, item),
          file |-> SaveData(Append(items, item))]

\* What a repository method leaves behind: the stored list, the data file,
\* and the exception it raised, if any.
Stored(items, file, error) == [items |-> items, file |-> file, error |-> error]

\* The index of the first stored item with the id, 0 if there is none.
IndexOfId(items, item_id) ==
    IF RepoExists(items, item_id)
    THEN CHOOSE i \in 1..Len(items) :
             items[i].id = item_id /\ \A j \in 1..(i - 1) : items[j].id # item_id
    ELSE 0

\* (mutant of RepoUpdate: an item that is not stored is appended)
RepoUpdateOrAdd(items, file, item) ==
    IF IndexOfId(items, item.id) # 0
    THEN Stored([items EXCEPT ![IndexOfId(items, item.id)] = item],
                SaveData([items EXCEPT ![IndexOfId(items, item.id)] = item]), NoException)
    ELSE Stored(Append(items, item), SaveData(Append(items, item)), NoException)

\* ContactRepository.update / NoteRepository.update
RepoUpdate(items, file, item) ==
    IF IndexOfId(items, item.id) # 0
    THEN Stored([items EXCEPT ![IndexOfId(items, item.id)] = item],
                SaveData([items EXCEPT ![IndexOfId(items, item.id)] = item]), NoException)
    ELSE Stored(items, file, Exc("ValueError", "not found"))

\* ContactRepository.delete / NoteRepository.delete
RepoDelete(items, file, item_id) ==
    LET i == IndexOfId(items, item_id)
        rest == SubSeq(items, 1, i - 1) \o SubSeq(items, i + 1, Len(items))
    IN  IF i # 0 THEN Stored(rest, SaveData(rest), NoException)
        ELSE Stored(items, file, Exc("ValueError", "not found"))

\* ContactRepository.get_by_name(name): the first contact with the name,
\* ignoring case; its index, 0 if there is none.
IndexOfName(items, name) ==
    IF \E i \in 1..Len(items) : Lower(items[i].name) = Lower(name)
    THEN CHOOSE i \in 1..Len(items) :
             /\ Lower(items[i].name) = Lower(name)
             /\ \A j \in 1..(i - 1) : Lower(items[j].name) # Lower(name)
    ELSE 0

\* A data file holding a pickled list of dictionaries (the to_dict form).
DictFile(dicts) == [kind |-> "dicts", items |-> dicts]

\* A data file pickle.load cannot read.
CorruptFile == [kind |-> "corrupt", items |-> <<>>]

\* BaseRepository.load_data(): [] if the file does not exist or cannot be
\* unpickled, the pickled list otherwise.
BaseLoadData(file) == IF file.kind \in {"absent", "corrupt"} THEN <<>> ELSE file.items

\* date.fromisoformat(s) for YYYY-MM-DD
FromIsoFormat(s) ==
    IF Len(s) = 10 THEN Strptime(s, "-", [year |-> 1, month |-> 2, day |-> 3])
    ELSE [error |-> TRUE, date |-> NoDate]

\* Contact.to_dict() without the timestamps.
ContactToDict(contact) ==
    [id |-> contact.id, name |-> contact.name, address |-> contact.address,
     phones |-> contact.phones, emails |-> contact.emails,
     birthday |-> IF contact.birthday = NoDate THEN "" ELSE DateStr(contact.birthday)]

\* Contact.from_dict(data)
ContactFromDict(contact, data) ==
    [contact EXCEPT !.id = data.id, !.name = data.name, !.address = data.address,
                    !.phones = data.phones, !.emails = data.emails,
                    !.birthday = IF data.birthday = "" THEN NoDate
                                 ELSE FromIsoFormat(data.birthday).date]

\* Note.to_dict() without the timestamps: the tags as a list.
NoteToDict(note) ==
    [id |-> note.id, content |-> note.content, tags |-> SetToSeq(note.tags)]

\* Note.from_dict(data)
NoteFromDict(note, data) ==
    [note EXCEPT !.id = data.id, !.content = data.content,
                 !.tags = {data.tags[i] : i \in 1..Len(data.tags)}]

\* What load_data leaves behind: the list it returns, or the exception that
\* left it, and the next id BaseModel.__init__ will draw.
Loaded(items, error, nextUid) == [items |-> items, error |-> error, nextUid |-> nextUid]

\* ContactRepository.load_data()
LoadContacts(file, uid) ==
    LET data == BaseLoadData(file)
    IN  IF file.kind = "dicts"
        THEN Loaded(SubSeq([i \in 1..Len(data) |->
                               ContactFromDict(NewContact("", "", NoDate, uid + i - 1).contact,
                                               data[i])], 1, Len(data)),
                    NoException, uid + Len(data))
        ELSE Loaded(data, NoException, uid)

\* NoteRepository.load_data(): Note("") is the temporary note of the first
\* dictionary.
LoadNotes(file, uid) ==
    LET data == BaseLoadData(file)
        temporary == NewNote("", <<>>, uid)
    IN  IF file.kind = "dicts" /\ data # <<>>
        THEN IF temporary.error # NoException
             THEN Loaded(<<>>, temporary.error, uid + 1)
             ELSE Loaded(SubSeq([i \in 1..Len(data) |->
                                    NoteFromDict(NewNote("", <<>>, uid + i - 1).note, data[i])],
                                1, Len(data)),
                         NoException, uid + Len(data))
        ELSE Loaded(data, NoException, uid)

(***************************************************************************)
(* Command.execute                                                         *)
(***************************************************************************)

\* What execute(args, context) leaves behind: the two stored lists, the next
\* id BaseModel.__init__ will draw, the console output, and the exception
\* that left execute (NoException if it returned).
Result(contacts, notes, nextUid, files, output, raised) ==
    [contacts |-> contacts, notes |-> notes, nextUid |-> nextUid, saved |-> files,
     output |-> output, raised |-> raised]

Unchanged(app, output, raised) ==
    Result(app.contacts, app.notes, app.nextUid, app.saved, output, raised)

\* What input() gives inside Console.confirm / Console.prompt: a typed line,
\* or Ctrl+D (EOFError), or Ctrl+C (KeyboardInterrupt).
TypedAnswers == {"y", "Yes", "n"}

\* AddNoteCommand.execute
ExecuteAddNote(command, args, app) ==
    IF Len(args) < 1
    THEN {Unchanged(app, <<Msg("error", "Note content is required"),
                           Msg("info", command.usage)>>, NoException)}
    ELSE LET made == NewNote(args[1], Tail(args), app.nextUid)
         IN  IF made.error # NoException
             THEN {Result(app.contacts, app.notes, app.nextUid + 1, app.saved, <<>>, made.error)}
             ELSE LET added == RepoAdd(app.notes, app.saved.notes, made.note)
                  IN  IF added.error = NoException
                      THEN {Result(app.contacts, added.items, app.nextUid + 1,
                                   [app.saved EXCEPT !.notes = added.file],
                                   <<Msg("success", "Note added successfully with "
                                         \o ToString(Len(args) - 1) \o " tag(s)!")>>,
                                   NoException)}
                      ELSE {Result(app.contacts, added.items, app.nextUid + 1,
                                   [app.saved EXCEPT !.notes = added.file],
                                   <<Msg("error", "Failed to add note: " \o added.error.msg)>>,
                                   NoException)}

\* What AddContactCommand._parse_flags returns: the result dictionary, or
\* None after the messages it printed.
NoFlags == [none |-> FALSE, output |-> <<>>, address |-> "", emails |-> <<>>,
            phones |-> <<>>, birthday |-> NoDate]

FlagError(output) == [NoFlags EXCEPT !.none = TRUE, !.output = output]

\* aliases.get(flag_part, flag_part)
FlagName(flag_part) ==
    CASE flag_part = "addr" -> "address"
      [] flag_part \in {"bday", "bd"} -> "birthday"
      [] OTHER -> flag_part

\* One iteration of the while loop of _parse_flags for the flag flag_part
\* with its value.
ParseFlag(flag_part, value, result) ==
    LET flag_name == FlagName(flag_part)
        parsed == Strptime(Strip(value), ".", [day |-> 1, month |-> 2, year |-> 3])
    IN  CASE flag_name = "address" -> [result EXCEPT !.address = Strip(value)]
          [] flag_name = "email" -> [result EXCEPT !.emails = Append(@, Strip(value))]
          [] flag_name = "phone" -> [result EXCEPT !.phones = Append(@, Strip(value))]
          [] flag_name = "birthday" ->
                IF parsed.error
                THEN FlagError(<<Msg("error", "Invalid birthday format: " \o value),
                                 Msg("info", "Birthday must be in DD.MM.YYYY format")>>)
                ELSE [result EXCEPT !.birthday = parsed.date]
          [] OTHER ->
                FlagError(<<Msg("error", "Unknown flag: --" \o flag_part),
                            Msg("info", "Supported flags: --address, --email, --phone, --birthday"),
                            Msg("info", "Short aliases: --addr, --bday, --bd")>>)

RECURSIVE ParseFlagsFrom(_, _, _, _)

\* The while loop of _parse_flags from index i (1-based) on.
ParseFlagsFrom(command, args, i, result) ==
    IF result.none \/ i > Len(args) THEN result
    ELSE LET arg == args[i]
             eq == Find(arg, "=")
         IN  IF ~StartsWith(arg, "--")
             THEN FlagError(<<Msg("error", "Invalid argument: " \o arg),
                              Msg("info", "All arguments after name must be flags starting with --"),
                              Msg("info", command.usage)>>)
             ELSE IF eq > 0
             THEN ParseFlagsFrom(command, args, i + 1,
                      ParseFlag(SubSeq(arg, 3, eq - 1), SubSeq(arg, eq + 1, Len(arg)), result))
             ELSE IF i + 1 > Len(args)
             THEN FlagError(<<Msg("error", "Flag --" \o SubSeq(arg, 3, Len(arg))
                                           \o " requires a value"),
                              Msg("info", command.usage)>>)
             ELSE ParseFlagsFrom(command, args, i + 2,
                      ParseFlag(SubSeq(arg, 3, Len(arg)), args[i + 1], result))

\* AddContactCommand._parse_flags(args)
ParseFlags(command, args) == ParseFlagsFrom(command, args, 1, NoFlags)

RECURSIVE AddEach(_, _, _, _)

\* for value in values: contact.add_email(value) (or add_phone): the contact
\* after the loop, or the ValidationError that ended it.
AddEach(kind, made, values, i) ==
    IF made.error # NoException \/ i > Len(values) THEN made
    ELSE AddEach(kind,
                 IF kind = "email" THEN AddEmail(made.contact, values[i])
                 ELSE AddPhone(made.contact, values[i]),
                 values, i + 1)

\* (mutant of ExecuteAddContact: the contact is stored before its emails and
\* phones are added)
ExecuteAddContactStoresFirst(command, args, app) ==
    IF Len(args) < 1
    THEN {Unchanged(app, <<Msg("error", "Name is required"),
                           Msg("info", command.usage)>>, NoException)}
    ELSE LET parsed_args == ParseFlags(command, Tail(args))
             made == NewContact(args[1], parsed_args.address, parsed_args.birthday, app.nextUid)
             added == RepoAdd(app.contacts, app.saved.contacts, made.contact)
             filled == AddEach("phone", AddEach("email", made, parsed_args.emails, 1),
                               parsed_args.phones, 1)
         IN  {Result(added.items, app.notes, app.nextUid + 1,
                     [app.saved EXCEPT !.contacts = added.file], parsed_args.output,
                     filled.error)}

\* AddContactCommand.execute
ExecuteAddContact(command, args, app) ==
    IF Len(args) < 1
    THEN {Unchanged(app, <<Msg("error", "Name is required"),
                           Msg("info", command.usage)>>, NoException)}
    ELSE LET parsed_args == ParseFlags(command, Tail(args))
             made == NewContact(args[1], parsed_args.address, parsed_args.birthday, app.nextUid)
             filled == AddEach("phone", AddEach("email", made, parsed_args.emails, 1),
                               parsed_args.phones, 1)
             added == RepoAdd(app.contacts, app.saved.contacts, filled.contact)
         IN  IF parsed_args.none
             THEN {Unchanged(app, parsed_args.output, NoException)}
             ELSE IF filled.error # NoException
             THEN {Result(app.contacts, app.notes, app.nextUid + 1, app.saved, <<>>,
                          filled.error)}
             ELSE IF added.error = NoException
             THEN {Result(added.items, app.notes, app.nextUid + 1,
                          [app.saved EXCEPT !.contacts = added.file],
                          <<Msg("success", "Contact '" \o args[1] \o "' added successfully!")>>,
                          NoException)}
             ELSE {Result(added.items, app.notes, app.nextUid + 1,
                          [app.saved EXCEPT !.contacts = added.file],
                          <<Msg("error", "Failed to add contact: " \o added.error.msg)>>,
                          NoException)}

RECURSIVE Join(_, _)

\* sep.join(list)
Join(sep, list) ==
    IF list = <<>> THEN ""
    ELSE IF Len(list) = 1 THEN list[1]
    ELSE list[1] \o sep \o Join(sep, Tail(list))

\* What input() gives inside Console.prompt when a number is asked for.
TypedChoices == {"0", "1", "2", "7", "x"}

\* What EditContactCommand._find_contact returns: the index of the contact in
\* the stored list (0 for None), after the messages it printed, or the
\* exception that left it.
Found(index, output, raised) == [index |-> index, output |-> output, raised |-> raised]

\* The choice typed at 'Select contact number (0 to cancel)', with matching
\* the indices of the contacts found.
ChosenContact(typed, matching, shown) ==
    IF ~(typed # "" /\ AllDigits(typed))
    THEN Found(0, shown \o <<Msg("error", "Invalid input")>>, NoException)
    ELSE IF StrToNat(typed) = 0
    THEN Found(0, shown \o <<Msg("info", "Edit cancelled")>>, NoException)
    ELSE IF StrToNat(typed) <= Len(matching)
    THEN Found(matching[StrToNat(typed)], shown, NoException)
    ELSE Found(0, shown \o <<Msg("error", "Invalid selection")>>, NoException)

\* EditContactCommand._find_contact(name, repo)
FindContact(name, items) ==
    LET matching == Filter([i \in 1..Len(items) |-> i],
                           {i \in 1..Len(items) : MatchesSearch(items[i], name)})
        shown == <<Msg("info", "Found " \o ToString(Len(matching))
                               \o " contacts matching '" \o name \o "':")>>
                 \o SubSeq([k \in 1..Len(matching) |->
                               Msg("print", "  " \o ToString(k) \o ". "
                                   \o items[matching[k]].name \o " - "
                                   \o (IF items[matching[k]].phones # <<>>
                                       THEN Join(", ", items[matching[k]].phones)
                                       ELSE "No phones") \o " - "
                                   \o (IF items[matching[k]].emails # <<>>
                                       THEN Join(", ", items[matching[k]].emails)
                                       ELSE "No emails"))],
                           1, Len(matching))
    IN  IF IndexOfName(items, name) # 0
        THEN {Found(IndexOfName(items, name), <<>>, NoException)}
        ELSE IF matching = <<>>
        THEN {Found(0, <<Msg("error", "No contacts found matching '" \o name \o "'")>>,
                    NoException)}
        ELSE IF Len(matching) = 1
        THEN {Found(matching[1],
                    <<Msg("info", "Found contact: " \o items[matching[1]].name)>>,
                    NoException)}
        ELSE {ChosenContact(typed, matching, shown) : typed \in TypedChoices}
                 \cup {Found(0, shown, Exc("EOFError", "")),
                       Found(0, shown, Exc("KeyboardInterrupt", ""))}

\* What the if / elif chain of _direct_edit did to the contact: the contact
\* as it is now, the ValidationError raised, and the messages printed before
\* an early return.
FieldEdited(contact, error, output) ==
    [contact |-> contact, error |-> error, output |-> output]

\* remove then add, as replace-phone and replace-email do: the contact keeps
\* the removal when the addition raises.
Replaced(removed, added) ==
    IF removed.error # NoException THEN FieldEdited(removed.contact, removed.error, <<>>)
    ELSE FieldEdited(added.contact, added.error, <<>>)

\* The if / elif chain of _direct_edit on field and value.
EditField(contact, field, value) ==
    LET old_new == Split(value)
        of(e) == FieldEdited(e.contact, e.error, <<>>)
    IN  CASE field = "name" -> of(SetName(contact, value))
          [] field = "address" -> of(SetAddress(contact, value))
          [] field = "birthday" ->
                IF ParseDate(value) # NoDate THEN of(SetBirthday(contact, ParseDate(value)))
                ELSE FieldEdited(contact, NoException,
                                 <<Msg("error", "Invalid date format. Use YYYY-MM-DD")>>)
          [] field = "add-phone" -> of(AddPhone(contact, value))
          [] field = "remove-phone" -> of(RemovePhone(contact, value))
          [] field = "replace-phone" ->
                IF Len(old_new) # 2
                THEN FieldEdited(contact, NoException,
                                 <<Msg("error", "Usage: replace-phone '<old>' '<new>'")>>)
                ELSE Replaced(RemovePhone(contact, old_new[1]),
                              AddPhone(RemovePhone(contact, old_new[1]).contact, old_new[2]))
          [] field = "add-email" -> of(AddEmail(contact, value))
          [] field = "remove-email" -> of(RemoveEmail(contact, value))
          [] field = "replace-email" ->
                IF Len(old_new) # 2
                THEN FieldEdited(contact, NoException,
                                 <<Msg("error", "Usage: replace-email '<old>' '<new>'")>>)
                ELSE Replaced(RemoveEmail(contact, old_new[1]),
                              AddEmail(RemoveEmail(contact, old_new[1]).contact, old_new[2]))
          [] OTHER ->
                FieldEdited(contact, NoException,
                    <<Msg("error", "Unknown field: " \o field),
                      Msg("info", "Available fields: name, address, birthday, add-phone, remove-phone, replace-phone, add-email, remove-email, replace-email"),
                      Msg("info", "Tip: Use 'edit-contact <name>' for interactive mode")>>)

\* EditContactCommand._direct_edit(contact, args, repo), contact being the
\* stored object at index: what the methods of Contact change, they change in
\* the repository's list; the data file changes when repo.update is reached.
DirectEdit(index, args, app, shown) ==
    LET contact == app.contacts[index]
        edit == EditField(contact, Lower(args[1]), Join(" ", Tail(args)))
        edited == [app.contacts EXCEPT ![index] = edit.contact]
        updated == RepoUpdate(edited, app.saved.contacts, edit.contact)
    IN  IF Len(args) < 2
        THEN Unchanged(app, shown \o
                 <<Msg("error", "Field and value are required for direct mode"),
                   Msg("info", "Tip: Use 'edit-contact <name>' for interactive mode")>>,
                 NoException)
        ELSE IF edit.output # <<>>
        THEN Result(edited, app.notes, app.nextUid, app.saved, shown \o edit.output,
                    NoException)
        ELSE IF edit.error # NoException
        THEN Result(edited, app.notes, app.nextUid, app.saved,
                    shown \o <<Msg("error", "Validation error: " \o edit.error.msg)>>,
                    NoException)
        ELSE IF updated.error # NoException
        THEN Result(updated.items, app.notes, app.nextUid,
                    [app.saved EXCEPT !.contacts = updated.file],
                    shown \o <<Msg("error", "Failed to update contact: "
                                            \o updated.error.msg)>>,
                    NoException)
        ELSE Result(updated.items, app.notes, app.nextUid,
                    [app.saved EXCEPT !.contacts = updated.file],
                    shown \o <<Msg("success", "Contact '" \o contact.name
                                              \o "' updated successfully!")>>,
                    NoException)

\* EditContactCommand.execute with no argument or with a field: the direct
\* mode (one argument alone starts the interactive mode).
ExecuteEditContact(command, args, app) ==
    IF args = <<>>
    THEN {Unchanged(app, <<Msg("error", "Contact name is required"),
                           Msg("info", command.usage),
                           Msg("info", "Tip: Use interactive mode by just providing the name")>>,
                    NoException)}
    ELSE {IF found.index = 0 THEN Unchanged(app, found.output, found.raised)
          ELSE DirectEdit(found.index, Tail(args), app, found.output)
          : found \in FindContact(args[1], app.contacts)}

\* ContactRepository.search(query): the stored contacts that match, in order.
RepoSearch(items, query) ==
    Filter(items, {i \in 1..Len(items) : MatchesSearch(items[i], query)})

\* (mutant of ExecuteSearchContacts: the contacts found are taken out of the
\* repository)
ExecuteSearchContactsConsumes(command, args, app) ==
    LET query == Join(" ", args)
        found == RepoSearch(app.contacts, query)
        rest == Filter(app.contacts,
                       {i \in 1..Len(app.contacts) : ~MatchesSearch(app.contacts[i], query)})
    IN  IF args = <<>>
        THEN {Unchanged(app, <<Msg("error", "Search query is required"),
                               Msg("info", command.usage)>>, NoException)}
        ELSE IF found = <<>>
        THEN {Unchanged(app, <<Msg("info", "No contacts found matching '" \o query \o "'")>>,
                        NoException)}
        ELSE {Result(rest, app.notes, app.nextUid, app.saved,
                     <<Msg("info", "\nFound " \o ToString(Len(found))
                                   \o " contact(s) matching '" \o query \o "':"),
                       Msg("print", "<table>")>>, NoException)}

\* SearchContactsCommand.execute
ExecuteSearchContacts(command, args, app) ==
    LET query == Join(" ", args)
        found == RepoSearch(app.contacts, query)
    IN  IF args = <<>>
        THEN {Unchanged(app, <<Msg("error", "Search query is required"),
                               Msg("info", command.usage)>>, NoException)}
        ELSE IF found = <<>>
        THEN {Unchanged(app, <<Msg("info", "No contacts found matching '" \o query \o "'")>>,
                        NoException)}
        ELSE {Unchanged(app, <<Msg("info", "\nFound " \o ToString(Len(found))
                                           \o " contact(s) matching '" \o query \o "':"),
                               Msg("print", "<table>")>>, NoException)}

\* ListNotesCommand.execute
ExecuteListNotes(command, args, app) ==
    IF app.notes = <<>>
    THEN {Unchanged(app, <<Msg("info", "No notes found")>>, NoException)}
    ELSE {Unchanged(app, <<Msg("info", "\nTotal notes: " \o ToString(Len(app.notes))),
                           Msg("print", "<table>")>>, NoException)}

\* ListContactsCommand.execute
ExecuteListContacts(command, args, app) ==
    IF app.contacts = <<>>
    THEN {Unchanged(app, <<Msg("info", "No contacts found")>>, NoException)}
    ELSE {Unchanged(app, <<Msg("info", "\nTotal contacts: " \o ToString(Len(app.contacts))),
                           Msg("print", "<table>")>>, NoException)}

\* CleanNotesCommand.execute
ExecuteCleanNotes(command, args, app) ==
    IF app.notes = <<>>
    THEN {Unchanged(app, <<Msg("info", "No notes to delete.")>>, NoException)}
    ELSE {Unchanged(app, <<>>, Exc("EOFError", "")),
          Unchanged(app, <<>>, Exc("KeyboardInterrupt", ""))}
         \cup {IF Lower(answer) \in {"y", "yes"}
               THEN Result(app.contacts, <<>>, app.nextUid,
                           [app.saved EXCEPT !.notes = SaveData(<<>>)],
                           <<Msg("success", "All notes deleted successfully!")>>, NoException)
               ELSE Unchanged(app, <<Msg("info", "Operation cancelled.")>>, NoException)
               : answer \in TypedAnswers}

\* CleanContactsCommand.execute
ExecuteCleanContacts(command, args, app) ==
    IF app.contacts = <<>>
    THEN {Unchanged(app, <<Msg("info", "No contacts to delete.")>>, NoException)}
    ELSE {Unchanged(app, <<>>, Exc("EOFError", "")),
          Unchanged(app, <<>>, Exc("KeyboardInterrupt", ""))}
         \cup {IF Lower(answer) \in {"y", "yes"}
               THEN Result(<<>>, app.notes, app.nextUid,
                           [app.saved EXCEPT !.contacts = SaveData(<<>>)],
                           <<Msg("success", "All contacts deleted successfully!")>>, NoException)
               ELSE Unchanged(app, <<Msg("info", "Operation cancelled.")>>, NoException)
               : answer \in TypedAnswers}

\* HelpCommand.execute
ExecuteHelp(command, args, app) ==
    IF args # <<>>
    THEN LET found == RegistryGet(app.commands, app.aliases, args[1])
             suggestions == FindBestMatch(args[1],
                                GetCommandNames(app.commands, app.aliases), DefaultThreshold)
         IN  IF found # NoCommand
             THEN {Unchanged(app, <<Msg("print", "help for " \o found.name)>>, NoException)}
             ELSE {Unchanged(app,
                     <<Msg("error", "Unknown command: " \o args[1])>>
                     \o (IF suggestions.found /\ suggestions.value # ""
                         THEN <<Msg("info", "Did you mean: " \o suggestions.value \o "?")>>
                         ELSE <<>>),
                     NoException)}
    ELSE {Unchanged(app, <<Msg("header", "Kontacto - Available Commands"),
                           Msg("print", "<commands by category>"),
                           Msg("print", "\nType 'help <command>' for detailed help on a specific command.")>>,
                    NoException)}

\* ExitCommand.execute: sys.exit(0) raises SystemExit.
ExecuteExit(command, args, app) ==
    {Unchanged(app, <<Msg("info", "Goodbye! Thank you for using Kontacto.")>>,
               Exc("SystemExit", "0"))}

\* ClearCommand.execute
ExecuteClear(command, args, app) == {Unchanged(app, <<>>, NoException)}

\* execute of a command class outside Kontacto: it returns, or raises an
\* Exception (the tests' side_effect=Exception("Test error")).
ExecuteExtension(command, args, app) ==
    {Unchanged(app, <<>>, NoException),
     Unchanged(app, <<>>, Exc("Exception", "Test error"))}

\* command.execute(args, self.context): dynamic dispatch on the class.
Execute(command, args, app) ==
    CASE command.cls = "AddNoteCommand" -> ExecuteAddNote(command, args, app)
      [] command.cls = "AddContactCommand" -> ExecuteAddContact(command, args, app)
      [] command.cls = "SearchContactsCommand" -> ExecuteSearchContacts(command, args, app)
      [] command.cls = "ListNotesCommand" -> ExecuteListNotes(command, args, app)
      [] command.cls = "ListContactsCommand" -> ExecuteListContacts(command, args, app)
      [] command.cls = "CleanNotesCommand" -> ExecuteCleanNotes(command, args, app)
      [] command.cls = "CleanContactsCommand" -> ExecuteCleanContacts(command, args, app)
      [] command.cls = "HelpCommand" -> ExecuteHelp(command, args, app)
      [] command.cls = "ExitCommand" -> ExecuteExit(command, args, app)
      [] command.cls = "ClearCommand" -> ExecuteClear(command, args, app)
      [] command.cls = "Extension" -> ExecuteExtension(command, args, app)

\* The outcomes of command.validate_args(args): the value returned, or the
\* exception raised. BaseCommand's returns True and no command of Kontacto
\* overrides it; a subclass registered from outside may return either value
\* or raise.
Validated(returned, raised) == [returned |-> returned, raised |-> raised]

ValidateArgs(command, args) ==
    IF command.cls = "Extension"
    THEN {Validated(TRUE, NoException), Validated(FALSE, NoException),
          Validated(FALSE, Exc("ValueError", "bad arguments"))}
    ELSE {Validated(TRUE, NoException)}

(***************************************************************************)
(* Kontacto.process_command                                                *)
(***************************************************************************)

\* The command_aliases dict process_command builds for parse_command_input:
\*     for cmd_name in get_command_names():
\*         cmd = get(cmd_name)
\*         if cmd: command_aliases[cmd_name] = cmd_name
\*                 for alias in cmd.aliases: command_aliases[alias] = cmd_name
\* written[i] is the set of keys iteration i assigns (all to names[i]); a key
\* ends with the value the last iteration that assigns it gives it.
BuildCommandAliases(cmds, als) ==
    LET names == GetCommandNames(cmds, als)
        written == [i \in 1..Len(names) |->
                       LET cmd == RegistryGet(cmds, als, names[i])
                       IN  IF cmd # NoCommand
                           THEN {names[i]} \cup {cmd.aliases[j] : j \in 1..Len(cmd.aliases)}
                           ELSE {}]
        last_write == [k \in UNION {written[i] : i \in 1..Len(names)} |->
                       LET writers == {i \in 1..Len(names) : k \in written[i]}
                       IN  CHOOSE i \in writers : \A j \in writers : j <= i]
    IN  [k \in DOMAIN last_write |-> names[last_write[k]]]

\* One call of a command's method by the dispatcher, and how it ended.
Call(op, command, args, result) ==
    [op |-> op, command |-> command.id, args |-> args, result |-> result]

\* What one process_command(input_text) call did: its outcome, the parsed
\* command name, the console output, the calls made on the command, the
\* exception that left process_command (NoException if it returned), the
\* exception its except clause caught, and the stored lists afterwards.
Processed(outcome, token, output, calls, raised, caught, res) ==
    [outcome |-> outcome, token |-> token, output |-> output, calls |-> calls,
     raised |-> raised, caught |-> caught,
     contacts |-> res.contacts, notes |-> res.notes, nextUid |-> res.nextUid,
     saved |-> res.saved]

\* process_command returns without having done anything.
SilentReturn(token, app) ==
    {Processed("NoOp", token, <<>>, <<>>, NoException, NoException,
               Unchanged(app, <<>>, NoException))}

\* (mutants of IsException: an except clause that catches ValueError only,
\* and one that catches every BaseException)
IsValueError(e) == e.type = "ValueError"

IsBaseException(e) == e.type # "none"

\* except Exception as e: SystemExit and KeyboardInterrupt are not subclasses
\* of Exception.
IsException(e) == e.type \notin {"none", "SystemExit", "KeyboardInterrupt"}

\* try: command.execute(args, self.context) / except Exception as e: ...
ExecuteContained(command, args, app, token) ==
    {IF IsException(res.raised)
     THEN Processed("Executed", token,
                    res.output \o <<Msg("error", "Error executing command: " \o res.raised.msg)>>,
                    <<Call("execute", command, args, "raised")>>,
                    NoException, res.raised, res)
     ELSE Processed("Executed", token, res.output,
                    <<Call("execute", command, args,
                           IF res.raised = NoException THEN "returned" ELSE "raised")>>,
                    res.raised, NoException, res)
     : res \in Execute(command, args, app)}

\* (mutant of ValidateAndExecute: execute without asking validate_args)
ExecuteUnvalidated(command, args, app, token) ==
    ExecuteContained(command, args, app, token)

\* if not command.validate_args(args): ... return; then the try block.
ValidateAndExecute(command, args, app, token) ==
    UNION {
        IF v.raised # NoException
        THEN {Processed("none", token, <<>>,
                        <<Call("validate", command, args, "raised")>>,
                        v.raised, NoException, Unchanged(app, <<>>, NoException))}
        ELSE IF ~v.returned
        THEN {Processed("ValidationFailed", token,
                        <<Msg("error", "Invalid arguments"), Msg("info", command.usage)>>,
                        <<Call("validate", command, args, "False")>>,
                        NoException, NoException, Unchanged(app, <<>>, NoException))}
        ELSE {[p EXCEPT !.calls = <<Call("validate", command, args, "True")>> \o p.calls]
              : p \in ExecuteContained(command, args, app, token)}
        : v \in ValidateArgs(command, args)}

\* process_command from the registry lookup on.
LookupAndDispatch(command_name, args, app) ==
    LET command == RegistryGet(app.commands, app.aliases, command_name)
    IN  IF command = NoCommand
        THEN LET suggestions == FindBestMatch(command_name,
                                    GetCommandNames(app.commands, app.aliases),
                                    DefaultThreshold)
             IN  {Processed("Unresolved", command_name,
                      <<Msg("error", "Unknown command: " \o command_name),
                        IF suggestions.found /\ suggestions.value # ""
                        THEN Msg("info", "Did you mean: " \o suggestions.value \o "?")
                        ELSE Msg("info", "Type 'help' to see available commands.")>>,
                      <<>>, NoException, NoException, Unchanged(app, <<>>, NoException))}
        ELSE ValidateAndExecute(command, args, app, command_name)

\* (mutant of RegistryAfter: the alias map built for parsing is kept as the
\* registry's alias dictionary)
RegistryAfterKeepsAliasMap(app) ==
    [commands |-> app.commands,
     aliases |-> BuildCommandAliases(app.commands, app.aliases)]

\* The registry after process_command: the call only reads it
\* (get_command_names, get) and command_aliases is a local variable.
RegistryAfter(app) == [commands |-> app.commands, aliases |-> app.aliases]

\* (mutant of ProcessCommand: without the two early returns)
ProcessCommandNoEarlyReturn(input_text, app) ==
    LET parsed == ParseCommandInput(input_text,
                      BuildCommandAliases(app.commands, app.aliases))
    IN  LookupAndDispatch(parsed.command, parsed.args, app)

\* Kontacto.process_command(input_text): the set of its possible results.
ProcessCommand(input_text, app) ==
    IF Strip(input_text) = ""
    THEN SilentReturn("", app)
    ELSE LET parsed == ParseCommandInput(input_text,
                           BuildCommandAliases(app.commands, app.aliases))
         IN  IF parsed.command = ""
             THEN SilentReturn(parsed.command, app)
             ELSE LookupAndDispatch(parsed.command, parsed.args, app)

(***************************************************************************)
(* State                                                                   *)
(***************************************************************************)
VARIABLES
    commands,   \* CommandRegistry._commands : name -> command
    aliases,    \* CommandRegistry._aliases  : alias -> name
    lastCall,   \* the last register() call: the command passed and the error raised
    succeeded,  \* the commands whose register() call returned normally
    nextId,     \* the number of command objects constructed so far, plus one
    pc,         \* where the application is: "constructed", "loop" (at the
                \* top of run()'s while loop), "prompt" (inside prompt()),
                \* "exited" (SystemExit left run()), "returned" (run()
                \* returned), "crashed" (an exception left run())
    contacts,   \* ContactRepository._contacts
    notes,      \* NoteRepository._notes
    nextUid,    \* the ids BaseModel.__init__ has drawn so far, plus one
    last,       \* what run() has done since it was last at the prompt
    call,       \* a function of utils/fuzzy_matcher.py called on its own:
                \* the function and its arguments
    returned,   \* the value that call returned
    saved       \* the contents of the data files of the two repositories

regVars == <<commands, aliases, lastCall, succeeded, nextId>>

\* The variables of a function call made on its own.
fnVars == <<call, returned>>

vars == <<commands, aliases, lastCall, succeeded, nextId, pc, contacts, notes, nextUid, last,
          call, returned, saved>>

\* A step of run(): the event, the line read, what process_command did with
\* it, and the messages run() itself printed.
Step(event, line, p, loopOutput) ==
    [event |-> event, line |-> line, outcome |-> p.outcome, token |-> p.token,
     output |-> p.output, calls |-> p.calls, raised |-> p.raised,
     caught |-> p.caught, loopOutput |-> loopOutput]

NotProcessed ==
    [outcome |-> "none", token |-> "", output |-> <<>>, calls |-> <<>>,
     raised |-> NoException, caught |-> NoException]

NoStep == Step("none", "", NotProcessed, <<>>)

\* No function is called on its own, and nothing has returned yet.
NoFunction == [fn |-> "none"]

NotReturned == [returned |-> FALSE]

(***************************************************************************)
(* A registry driven by arbitrary register() calls                         *)
(***************************************************************************)

\* The number of register() calls of a run.
MaxRegs == 3

RegNames == {"a", "b", "c"}

\* The alias lists of the commands registered: up to two aliases, possibly
\* repeated, possibly equal to the command's own name.
RegAliasLists == UNION {[1..n -> RegNames] : n \in 0..2}

NoCall == [command |-> NoCommand, error |-> "none"]

RegistryInit ==
    /\ commands = EmptyDict
    /\ aliases = EmptyDict
    /\ lastCall = NoCall
    /\ succeeded = {}
    /\ nextId = 1
    /\ pc = "registry"
    /\ contacts = <<>>
    /\ notes = <<>>
    /\ nextUid = 1
    /\ saved = NoFiles
    /\ last = NoStep
    /\ call = NoFunction
    /\ returned = NotReturned

\* registry.register(command) on a freshly constructed command object.
RegisterCall ==
    /\ nextId <= MaxRegs
    /\ \E n \in RegNames, al \in RegAliasLists :
         LET command == [id |-> nextId, name |-> n, aliases |-> al, cls |-> "Mock", usage |-> ""]
             r == Register(commands, aliases, command)
         IN  /\ commands' = r.commands
             /\ aliases' = r.aliases
             /\ lastCall' = [command |-> command, error |-> r.error]
             /\ succeeded' = IF r.error = "none" THEN succeeded \cup {command}
                             ELSE succeeded
             /\ nextId' = nextId + 1
    /\ UNCHANGED <<pc, contacts, notes, nextUid, saved, last, fnVars>>

RegistryNext == RegisterCall

SpecRegistry == RegistryInit /\ [][RegistryNext]_vars

(***************************************************************************)
(* The application: Kontacto.__init__, then Kontacto.run                   *)
(***************************************************************************)

\* The ids BaseModel.__init__ draws in a run.
MaxUid == 2

\* The lines typed at the prompt.
InputLines ==
    {"", "   ", "help", "HELP add-note", "? nosuch", "clear",
     "exit", "quit", "q", "bye",
     "an 'buy milk' Shop", "add-note \"  \"", "add-note 'unbalanced", "ln",
     "clean-notes", "ext 1", "X", "hlep", "zzzz", "\"\" foo",
     "del", "gen", "zzzq",
     "add-contact", "ac Bob extra", "ac Bob --nick=x", "ac Bob --phone",
     "ac Bob --bday=31.02.2000", "ac Bob --bd 01.01.2999", "ac Bob --phone=123",
     "ac Bob --email=bob@x", "ac Bob --phone=5551234567 --phone '555 123 4567'",
     "new-contact Bob --email=Bob@x.io --phone 5551234567 --bd 1.2.2000",
     "lc", "sc", "sc bob", "find-contacts 2000-02"}

\* self.context and the registry, as process_command sees them.
App ==
    [commands |-> commands, aliases |-> aliases, contacts |-> contacts,
     notes |-> notes, nextUid |-> nextUid, saved |-> saved]

\* The state after Kontacto.__init__ (the data files do not exist yet). A
\* ValueError of register() would leave __init__ and reach main().
Init ==
    LET r == RegisterCommands
    IN  /\ commands = r.commands
        /\ aliases = r.aliases
        /\ lastCall = NoCall
        /\ succeeded = IF r.error = "none"
                       THEN {BuiltinCommands[i] : i \in 1..Len(BuiltinCommands)}
                       ELSE {}
        /\ nextId = Len(BuiltinCommands) + 1
        /\ pc = IF r.error = "none" THEN "constructed" ELSE "crashed"
        /\ contacts = <<>>
        /\ notes = <<>>
        /\ nextUid = 1
        /\ saved = NoFiles
        /\ last = NoStep
        /\ call = NoFunction
        /\ returned = NotReturned

\* The embedding code registers one command of its own before run().
RegisterExtension ==
    /\ pc = "constructed"
    /\ nextId = Len(BuiltinCommands) + 1
    /\ LET command == ExtensionCommand(nextId)
           r == Register(commands, aliases, command)
       IN  /\ commands' = r.commands
           /\ aliases' = r.aliases
           /\ lastCall' = [command |-> command, error |-> r.error]
           /\ succeeded' = IF r.error = "none" THEN succeeded \cup {command}
                           ELSE succeeded
           /\ nextId' = nextId + 1
    /\ UNCHANGED <<pc, contacts, notes, nextUid, saved, last, fnVars>>

\* run() up to its loop.
Run ==
    /\ pc = "constructed"
    /\ pc' = "loop"
    /\ last' = Step("start", "", NotProcessed,
                    <<Msg("header", "Welcome to Kontacto!"),
                      Msg("info", "Type 'help' to see available commands."),
                      Msg("info", "Use Tab for command completion, arrow keys for history.\n")>>)
    /\ UNCHANGED <<regVars, contacts, notes, nextUid, saved, fnVars>>

\* (mutant of AfterRaise: Ctrl+C ends run() as Ctrl+D does)
AfterRaiseInterruptEnds(raised) ==
    CASE raised.type = "none" -> [pc |-> "loop", loopOutput |-> <<>>]
      [] raised.type \in {"KeyboardInterrupt", "EOFError"} ->
             [pc |-> "returned", loopOutput |-> <<Msg("info", "\nGoodbye!")>>]
      [] raised.type = "SystemExit" -> [pc |-> "exited", loopOutput |-> <<>>]
      [] OTHER -> [pc |-> "crashed", loopOutput |-> <<>>]

\* Where an exception that leaves the try block of run()'s loop takes the
\* application, and what run() prints.
AfterRaise(raised) ==
    CASE raised.type = "none" -> [pc |-> "loop", loopOutput |-> <<>>]
      [] raised.type = "KeyboardInterrupt" ->
             [pc |-> "loop",
              loopOutput |-> <<Msg("warning", "\nUse 'exit' command to quit.")>>]
      [] raised.type = "EOFError" ->
             [pc |-> "returned", loopOutput |-> <<Msg("info", "\nGoodbye!")>>]
      [] raised.type = "SystemExit" -> [pc |-> "exited", loopOutput |-> <<>>]
      [] OTHER -> [pc |-> "crashed", loopOutput |-> <<>>]

\* The loop body begins: prompt() is called.
Prompt ==
    /\ pc = "loop"
    /\ pc' = "prompt"
    /\ last' = NoStep
    /\ UNCHANGED <<regVars, contacts, notes, nextUid, saved, fnVars>>

\* prompt() returns a line, process_command(line).
ReadAndProcess ==
    /\ pc = "prompt"
    /\ \E line \in InputLines :
         \E p \in ProcessCommand(line, App) :
            /\ p.nextUid <= MaxUid + 1
            /\ contacts' = p.contacts
            /\ notes' = p.notes
            /\ nextUid' = p.nextUid
            /\ saved' = p.saved
            /\ pc' = AfterRaise(p.raised).pc
            /\ last' = Step("line", line, p, AfterRaise(p.raised).loopOutput)
    /\ commands' = RegistryAfter(App).commands
    /\ aliases' = RegistryAfter(App).aliases
    /\ UNCHANGED <<lastCall, succeeded, nextId, fnVars>>

\* Ctrl+C at the prompt.
PromptInterrupt ==
    /\ pc = "prompt"
    /\ pc' = AfterRaise(Exc("KeyboardInterrupt", "")).pc
    /\ last' = Step("interrupt", "", NotProcessed,
                    AfterRaise(Exc("KeyboardInterrupt", "")).loopOutput)
    /\ UNCHANGED <<regVars, contacts, notes, nextUid, saved, fnVars>>

\* Ctrl+D at the prompt.
PromptEOF ==
    /\ pc = "prompt"
    /\ pc' = AfterRaise(Exc("EOFError", "")).pc
    /\ last' = Step("eof", "", NotProcessed,
                    AfterRaise(Exc("EOFError", "")).loopOutput)
    /\ UNCHANGED <<regVars, contacts, notes, nextUid, saved, fnVars>>

Next ==
    \/ RegisterExtension
    \/ Run
    \/ Prompt
    \/ ReadAndProcess
    \/ PromptInterrupt
    \/ PromptEOF

Spec == Init /\ [][Next]_vars

(***************************************************************************)
(* parse_command_input called on its own, on lines typed character by      *)
(* character                                                               *)
(***************************************************************************)

\* The number of characters typed after the start of a line.
MaxTyped == 4

TypedChars == {"a", "B", " ", "'", "\"", "\\"}

\* The starts of the lines that are typed further.
LineStarts == {"", "Ab "}

\* The lines that are complete as they are.
WholeLines ==
    {"add-contact \"John Doe\" \"123 Main St\"",
     "search-contacts john doe smith",
     "AN 'buy \"organic\" Milk' Shop"}

\* The registry is the one Kontacto builds, and command_aliases the dict
\* process_command derives from it.
TokenizerInit ==
    LET r == RegisterCommands
        command_aliases == BuildCommandAliases(r.commands, r.aliases)
    IN  /\ commands = r.commands
        /\ aliases = r.aliases
        /\ lastCall = NoCall
        /\ succeeded = {BuiltinCommands[i] : i \in 1..Len(BuiltinCommands)}
        /\ nextId = Len(BuiltinCommands) + 1
        /\ pc = "function"
        /\ contacts = <<>>
        /\ notes = <<>>
        /\ nextUid = 1
        /\ saved = NoFiles
        /\ last = NoStep
        /\ \/ \E start \in LineStarts :
                call = [fn |-> "parse_command_input", input_text |-> start,
                        command_aliases |-> command_aliases, more |-> MaxTyped]
           \/ \E line \in WholeLines :
                call = [fn |-> "parse_command_input", input_text |-> line,
                        command_aliases |-> command_aliases, more |-> 0]
        /\ returned = NotReturned

\* One more character of the line is typed.
TypeChar ==
    /\ call.fn = "parse_command_input"
    /\ returned = NotReturned
    /\ call.more > 0
    /\ \E c \in TypedChars :
         call' = [call EXCEPT !.input_text = @ \o c, !.more = @ - 1]
    /\ UNCHANGED <<regVars, pc, contacts, notes, nextUid, saved, last, returned>>

\* parse_command_input(input_text, command_aliases) is called and returns.
Tokenize ==
    /\ call.fn = "parse_command_input"
    /\ returned = NotReturned
    /\ returned' = [returned |-> TRUE,
                    value |-> ParseCommandInput(call.input_text, call.command_aliases)]
    /\ UNCHANGED <<regVars, pc, contacts, notes, nextUid, saved, last, call>>

TokenizerNext == TypeChar \/ Tokenize

SpecTokenizer == TokenizerInit /\ [][TokenizerNext]_vars

(***************************************************************************)
(* get_command_suggestions and find_best_match called on their own         *)
(***************************************************************************)

\* The number of candidates in a list that is built one by one.
MaxCandidates == 4

\* The candidates a list is built from.
CandidatePool == {"help", "hlpe", "p", "Add", "an"}

Queries == {"", "A", "hlep", "xyz"}

\* The thresholds passed to find_best_match: 0.0, 0.4, 0.6, 0.75 and 1.0.
Thresholds ==
    {[num |-> 0, den |-> 1], [num |-> 2, den |-> 5], DefaultThreshold,
     [num |-> 3, den |-> 4], [num |-> 1, den |-> 1]}

\* The calls whose candidate list is complete as it is.
WholeCalls ==
    {[query |-> "add",
      candidates |-> <<"help", "add-contact", "list-contacts", "add-note">>],
     [query |-> "add-contac",
      candidates |-> <<"add-contact", "list-contacts", "search-contacts", "delete-contact">>],
     [query |-> "xyz",
      candidates |-> <<"add-contact", "list-contacts", "search-contacts", "delete-contact">>],
     [query |-> "add-contact", candidates |-> <<"add-contact", "Add-Contact", "">>],
     [query |-> "", candidates |-> <<"", "abc">>],
     [query |-> "ABC", candidates |-> <<"xyz", "abc", "bca">>]}

SuggestInit ==
    /\ commands = EmptyDict
    /\ aliases = EmptyDict
    /\ lastCall = NoCall
    /\ succeeded = {}
    /\ nextId = 1
    /\ pc = "function"
    /\ contacts = <<>>
    /\ notes = <<>>
    /\ nextUid = 1
    /\ saved = NoFiles
    /\ last = NoStep
    /\ \/ \E q \in Queries :
            call = [fn |-> "none", query |-> q, candidates |-> <<>>,
                    more |-> MaxCandidates]
       \/ \E w \in WholeCalls :
            call = [fn |-> "none", query |-> w.query, candidates |-> w.candidates,
                    more |-> 0]
    /\ returned = NotReturned

\* One more candidate joins the list.
AddCandidate ==
    /\ call.fn = "none"
    /\ call.more > 0
    /\ \E c \in CandidatePool :
         call' = [call EXCEPT !.candidates = Append(@, c), !.more = @ - 1]
    /\ UNCHANGED <<regVars, pc, contacts, notes, nextUid, saved, last, returned>>

\* get_command_suggestions(query, candidates) is called and returns.
Suggest ==
    /\ call.fn = "none"
    /\ call' = [call EXCEPT !.fn = "get_command_suggestions"]
    /\ returned' = [returned |-> TRUE,
                    value |-> GetCommandSuggestions(call.query, call.candidates)]
    /\ UNCHANGED <<regVars, pc, contacts, notes, nextUid, saved, last>>

\* find_best_match(query, candidates, threshold) is called and returns.
BestMatch ==
    /\ call.fn = "none"
    /\ \E threshold \in Thresholds :
         /\ call' = [fn |-> "find_best_match", query |-> call.query,
                     candidates |-> call.candidates, more |-> call.more,
                     threshold |-> threshold]
         /\ returned' = [returned |-> TRUE,
                         value |-> FindBestMatch(call.query, call.candidates, threshold)]
    /\ UNCHANGED <<regVars, pc, contacts, notes, nextUid, saved, last>>

\* find_suggestions(query, candidates) is called with the default
\* max_suggestions and returns.
Suggestions ==
    /\ call.fn = "none"
    /\ call' = [call EXCEPT !.fn = "find_suggestions"]
    /\ returned' = [returned |-> TRUE,
                    value |-> FindSuggestions(call.query, call.candidates, MaxSuggestions)]
    /\ UNCHANGED <<regVars, pc, contacts, notes, nextUid, saved, last>>

SuggestNext == AddCandidate \/ Suggest \/ BestMatch \/ Suggestions

SpecSuggest == SuggestInit /\ [][SuggestNext]_vars

(***************************************************************************)
(* The two repositories: constructed from their data files, then add,      *)
(* update and delete called on them                                        *)
(***************************************************************************)

MaxId == 2

ItemIds == 1..MaxId

\* The contacts and notes the calls are made with.
SomeContacts ==
    {[NewContact(name, "", NoDate, id).contact EXCEPT !.birthday = birthday] :
        id \in ItemIds, name \in {"Ann"}, birthday \in {NoDate, Date(2000, 2, 1)}}

SomeNotes ==
    {NewNote(content, tags, id).note : id \in ItemIds, content \in {"buy milk"},
                                      tags \in {<<>>, <<"Shop", "b", "a">>}}

RepoNames == {"contacts", "notes"}

\* The data files the application may find when it starts: none, a list of
\* objects an earlier run saved, a list of dictionaries, or an unreadable
\* file.
ContactFiles ==
    {NoFile, CorruptFile, SaveData(<<>>), DictFile(<<>>)}
        \cup {SaveData(<<c>>) : c \in {c \in SomeContacts : c.id = 1}}
        \cup {DictFile(<<ContactToDict(c)>>) : c \in {c \in SomeContacts : c.id = 1}}

NoteFiles ==
    {NoFile, CorruptFile, SaveData(<<>>), DictFile(<<>>)}
        \cup {SaveData(<<n>>) : n \in {n \in SomeNotes : n.id = 1}}
        \cup {DictFile(<<NoteToDict(n)>>) : n \in {n \in SomeNotes : n.id = 1}}

RepositoryInit ==
    /\ commands = EmptyDict
    /\ aliases = EmptyDict
    /\ lastCall = NoCall
    /\ succeeded = {}
    /\ nextId = 1
    /\ pc = "files"
    /\ contacts = <<>>
    /\ notes = <<>>
    /\ nextUid = MaxId + 1
    /\ \E cf \in ContactFiles, nf \in NoteFiles :
           /\ cf = NoFile \/ nf = NoFile
           /\ saved = [contacts |-> cf, notes |-> nf]
    /\ last = NoStep
    /\ call = NoFunction
    /\ returned = NotReturned

\* ContactRepository() and NoteRepository(), as Kontacto.__init__ calls them:
\* each loads its data file; an exception of load_data ends the construction.
Construct ==
    /\ pc = "files"
    /\ LET cl == LoadContacts(saved.contacts, nextUid)
           nl == LoadNotes(saved.notes, cl.nextUid)
       IN  /\ contacts' = cl.items
           /\ notes' = nl.items
           /\ nextUid' = nl.nextUid
           /\ pc' = IF nl.error = NoException THEN "repositories" ELSE "failed"
           /\ call' = [fn |-> "load_data", files |-> saved]
           /\ returned' = [returned |-> TRUE, raised |-> nl.error]
    /\ UNCHANGED <<regVars, saved, last>>

\* The stored list and the data file of the repository.
RepoList(repo) == IF repo = "contacts" THEN contacts ELSE notes

RepoItems(repo) == IF repo = "contacts" THEN SomeContacts ELSE SomeNotes

\* One call of a repository method has returned or raised.
RepoCalled(fn, repo, item_id, r) ==
    /\ contacts' = IF repo = "contacts" THEN r.items ELSE contacts
    /\ notes' = IF repo = "notes" THEN r.items ELSE notes
    /\ saved' = [saved EXCEPT ![repo] = r.file]
    /\ call' = [fn |-> fn, repo |-> repo, id |-> item_id,
                items |-> RepoList(repo), file |-> saved[repo]]
    /\ returned' = [returned |-> TRUE, raised |-> r.error]
    /\ UNCHANGED <<regVars, pc, nextUid, last>>

AddCall ==
    /\ pc = "repositories"
    /\ \E repo \in RepoNames : \E item \in RepoItems(repo) :
           /\ Len(RepoList(repo)) <= MaxId
           /\ RepoCalled("add", repo, item.id, RepoAdd(RepoList(repo), saved[repo], item))

UpdateCall ==
    /\ pc = "repositories"
    /\ \E repo \in RepoNames : \E item \in RepoItems(repo) :
           /\ Len(RepoList(repo)) <= MaxId
           /\ RepoCalled("update", repo, item.id,
                         RepoUpdate(RepoList(repo), saved[repo], item))

DeleteCall ==
    /\ pc = "repositories"
    /\ \E repo \in RepoNames : \E item_id \in ItemIds :
           RepoCalled("delete", repo, item_id,
                      RepoDelete(RepoList(repo), saved[repo], item_id))

RepositoryNext == Construct \/ AddCall \/ UpdateCall \/ DeleteCall

SpecRepository == RepositoryInit /\ [][RepositoryNext]_vars

(***************************************************************************)
(* edit-contact called in direct mode on a repository that holds contacts  *)
(***************************************************************************)

MaxEdits == 2

\* Contacts as add-contact stores them.
Bob ==
    [id |-> 1, name |-> "Bob", address |-> "", phones |-> <<"5551234567">>,
     emails |-> <<"bob@x.io">>, birthday |-> Date(2000, 2, 1)]

Bobby ==
    [id |-> 2, name |-> "Bobby", address |-> "Kyiv", phones |-> <<>>,
     emails |-> <<>>, birthday |-> NoDate]

\* The arguments edit-contact is called with.
EditArgs ==
    {<<>>,
     <<"bob", "address", "Lviv">>, <<"Bob", "address">>,
     <<"Bob", "name", "Rob">>, <<"Bob", "Name", "  ">>,
     <<"Bob", "birthday", "2999-01-01">>, <<"Bob", "birthday", "soon">>,
     <<"Bob", "birthday", "01.03.2001">>,
     <<"Bob", "add-phone", "555 123 4567">>, <<"Bob", "add-phone", "0501234567">>,
     <<"Bob", "remove-phone", "0000000">>,
     <<"Bob", "replace-phone", "5551234567">>,
     <<"Bob", "replace-phone", "5551234567", "123">>,
     <<"Bob", "replace-phone", "5551234567", "0501234567">>,
     <<"Bob", "add-email", "bad">>, <<"Bob", "remove-email", "bob@x.io">>,
     <<"Bob", "replace-email", "Bob@x.io", "bad">>,
     <<"Bob", "replace-email", "bob@x.io", "rob@x.io">>,
     <<"Bob", "nick", "Bo">>,
     <<"bo", "address", "Lviv">>, <<"zed", "address", "Lviv">>}

EditContactInit ==
    /\ commands = EmptyDict
    /\ aliases = EmptyDict
    /\ lastCall = NoCall
    /\ succeeded = {}
    /\ nextId = 1
    /\ pc = "function"
    /\ contacts \in {<<Bob>>, <<Bob, Bobby>>}
    /\ notes = <<>>
    /\ nextUid = 3
    /\ saved = [contacts |-> SaveData(contacts), notes |-> NoFile]
    /\ last = NoStep
    /\ call = [fn |-> "edit-contact", edits |-> 0, args |-> <<>>,
               contacts |-> contacts, file |-> SaveData(contacts)]
    /\ returned = NotReturned

\* EditContactCommand.execute(args, context) is called and returns or raises.
EditContactCall ==
    /\ call.fn = "edit-contact"
    /\ call.edits < MaxEdits
    /\ \E args \in EditArgs :
         \E res \in ExecuteEditContact(BuiltinCommands[4], args, App) :
            /\ contacts' = res.contacts
            /\ saved' = res.saved
            /\ call' = [fn |-> "edit-contact", edits |-> call.edits + 1, args |-> args,
                        contacts |-> contacts, file |-> saved.contacts]
            /\ returned' = [returned |-> TRUE, output |-> res.output, raised |-> res.raised]
    /\ UNCHANGED <<regVars, pc, notes, nextUid, last>>

EditContactNext == EditContactCall

SpecEditContact == EditContactInit /\ [][EditContactNext]_vars

(***************************************************************************)
(* Claims about the registry                                               *)
(***************************************************************************)

\* C1: after any sequence of register calls, every command d whose
\* registration succeeded is what get(d.name) returns and what get(a)
\* returns for every alias a of d.
C1_GetReturnsRegistered ==
    \A d \in succeeded :
        /\ RegistryGet(commands, aliases, d.name) = d
        /\ \A i \in 1..Len(d.aliases) :
               RegistryGet(commands, aliases, d.aliases[i]) = d

\* C2: registration is atomic: a register call that fails because an alias
\* is already an alias key leaves both mappings as they were.
C2_AliasFailureIsAtomic ==
    [][/\ nextId' # nextId
       /\ lastCall'.error = "AliasAlreadyRegistered"
       /\ NoDuplicates(lastCall'.command.aliases)
          => commands' = commands /\ aliases' = aliases]_vars

\* C3: a register call whose name is already a primary key fails, and then
\* neither mapping changes: get(name) still returns the command registered
\* before and no alias of the rejected command becomes resolvable.
C3_DuplicateNameRejected ==
    [][nextId' # nextId /\ lastCall'.command.name \in DOMAIN commands
          => /\ lastCall'.error = "NameAlreadyRegistered"
             /\ commands' = commands
             /\ aliases' = aliases
             /\ RegistryGet(commands', aliases', lastCall'.command.name)
                    = RegistryGet(commands, aliases, lastCall'.command.name)
             /\ RegistryGet(commands', aliases', lastCall'.command.name)
                    # lastCall'.command
             /\ \A x \in RegNames :
                    RegistryGet(commands', aliases', x) # lastCall'.command]_vars

C3_Witness ==
    /\ lastCall.error = "NameAlreadyRegistered"
    /\ Len(lastCall.command.aliases) > 0
    /\ lastCall.command.aliases[1] \notin DOMAIN aliases
    /\ lastCall.command.name \notin DOMAIN aliases

\* C4: in every reachable registry state the primary keys and the alias keys
\* are disjoint and all_names() holds no duplicate.
C4_NamesAndAliasesDisjoint ==
    /\ (DOMAIN commands) \cap (DOMAIN aliases) = {}
    /\ NoDuplicates(GetCommandNames(commands, aliases))

(***************************************************************************)
(* Claims about the dispatcher                                             *)
(***************************************************************************)

\* The lowercased command token of a line and its argument list, as
\* parse_command_input yields them before any alias is resolved.
CommandToken(line) == ParseCommandInput(line, EmptyDict).command

LineArgs(line) == ParseCommandInput(line, EmptyDict).args

\* The command the registry holds for the token of the line just processed.
Resolved == RegistryGet(commands, aliases, CommandToken(last.line))

\* The exception that left execute() in the line just processed.
Thrown == IF last.caught # NoException THEN last.caught ELSE last.raised

ErrorTypes == {"Exception", "ValueError", "ValidationError", "EOFError"}

ExecuteCalls == {i \in 1..Len(last.calls) : last.calls[i].op = "execute"}

\* C5: if the execute of the resolved command raises an error,
\* process_command catches it, prints 'Error executing command: <message>'
\* and returns normally, so the loop goes on to the next line.
C5_ExecuteErrorIsReported ==
    \A i \in ExecuteCalls :
        last.calls[i].result = "raised" /\ Thrown.type \in ErrorTypes
            => /\ last.raised = NoException
               /\ last.caught = Thrown
               /\ last.output # <<>>
               /\ last.output[Len(last.output)]
                      = Msg("error", "Error executing command: " \o Thrown.msg)
               /\ pc = "loop"

C5_Witness ==
    /\ last.outcome = "Executed"
    /\ last.caught = Exc("ValidationError", "Note content cannot be empty")
    /\ pc = "loop"

ExitLines == {"exit", "quit", "q", "bye"}

\* C6: the termination request of the exit command, typed as exit, quit, q or
\* bye, leaves process_command untouched: the except clause does not catch it
\* and no 'Error executing command' message is printed.
C6_ExitPropagates ==
    last.event = "line" /\ last.line \in ExitLines
        => /\ Resolved.cls = "ExitCommand"
           /\ \E i \in ExecuteCalls : last.calls[i].command = Resolved.id
           /\ last.raised = Exc("SystemExit", "0")
           /\ last.caught = NoException
           /\ \A j \in 1..Len(last.output) :
                  ~StartsWith(last.output[j].text, "Error executing command")
           /\ pc = "exited"

C6_Witness ==
    /\ last.line = "q"
    /\ last.raised.type = "SystemExit"
    /\ pc = "exited"

\* C7: once the loop runs, no failure in tokenizing, alias resolution,
\* registry lookup, a command's validate or a command's execute ends it: the
\* loop is left only by the exit command's termination request or by end of
\* input.
C7_OnlyExitOrEofEndsLoop ==
    [][pc = "prompt" /\ pc' # "loop"
          => \/ last'.event = "eof"
             \/ /\ last'.raised.type = "SystemExit"
                /\ RegistryGet(commands, aliases, last'.token).cls = "ExitCommand"
                /\ \E i \in 1..Len(last'.calls) :
                       /\ last'.calls[i].op = "execute"
                       /\ last'.calls[i].command
                              = RegistryGet(commands, aliases, last'.token).id]_vars

\* C8: a line ends as Unresolved exactly when its lowercased command token is
\* no registered name and no registered alias; then 'Unknown command' is
\* printed and neither validate nor execute of any command is called.
C8_UnresolvedIffUnregistered ==
    last.event = "line" /\ Strip(last.line) # ""
        => /\ last.outcome = "Unresolved"
                  <=> CommandToken(last.line) \notin (DOMAIN commands \cup DOMAIN aliases)
           /\ last.outcome = "Unresolved"
                  => /\ last.output[1]
                            = Msg("error", "Unknown command: " \o CommandToken(last.line))
                     /\ last.calls = <<>>

\* C9: for a line whose token resolves to a command, validate_args(args) is
\* called before execute and with the same argument list; if it returns
\* false the outcome is ValidationFailed, the usage text is printed and
\* execute is not called.
C9_ValidateBeforeExecute ==
    last.event = "line" /\ Strip(last.line) # "" /\ Resolved # NoCommand
        => /\ Len(last.calls) \in {1, 2}
           /\ last.calls[1].op = "validate"
           /\ last.calls[1].command = Resolved.id
           /\ last.calls[1].args = LineArgs(last.line)
           /\ \A i \in ExecuteCalls :
                  /\ i = 2
                  /\ last.calls[1].result = "True"
                  /\ last.calls[i].command = Resolved.id
                  /\ last.calls[i].args = LineArgs(last.line)
           /\ last.calls[1].result = "False"
                  => /\ last.outcome = "ValidationFailed"
                     /\ ExecuteCalls = {}
                     /\ \E j \in 1..Len(last.output) :
                            last.output[j] = Msg("info", Resolved.usage)

C9_Witness ==
    /\ last.outcome = "ValidationFailed"
    /\ last.calls = <<Call("validate", Resolved, <<"1">>, "False")>>

\* C10: an empty or whitespace-only line is a silent no-op: nothing is
\* printed, nothing is raised, no validate or execute is called, and the
\* registry, the context and the stored contacts and notes stay as they were.
C10_BlankLineIsSilent ==
    [][last'.event = "line" /\ Strip(last'.line) = "" /\ pc = "prompt"
          => /\ last'.outcome = "NoOp"
             /\ last'.output = <<>>
             /\ last'.loopOutput = <<>>
             /\ last'.calls = <<>>
             /\ last'.raised = NoException
             /\ last'.caught = NoException
             /\ commands' = commands
             /\ aliases' = aliases
             /\ contacts' = contacts
             /\ notes' = notes
             /\ nextUid' = nextUid
             /\ pc' = "loop"]_vars

C10_Witness ==
    /\ last.event = "line"
    /\ last.line = "   "
    /\ last.outcome = "NoOp"
    /\ notes # <<>>

(***************************************************************************)
(* Claims about aliases                                                    *)
(***************************************************************************)

\* The line just read begins with alias a, written bare in any letter case
\* and followed by a blank or by the end of the line.
TypedAlias(line, a) ==
    /\ StartsWith(Lower(line), a)
    /\ Len(line) > Len(a) => CharAt(line, Len(a) + 1) = " "

\* The same line with the name of command c in the place of alias a.
CanonicalLine(line, a, c) == c.name \o SubSeq(line, Len(a) + 1, Len(line))

\* C11: a line typed with an alias of a registered command does what the
\* same line typed with the command's name does: validate and execute are
\* called on that command with the same arguments and context, with the
\* same output, the same exception and the same stored lists afterwards.
C11_AliasDispatchEquivalent ==
    [][pc = "prompt" /\ last'.event = "line"
          => \A c \in GetAllCommands(commands) :
               \A i \in 1..Len(c.aliases) :
                 TypedAlias(last'.line, c.aliases[i])
                     => /\ last'.calls # <<>>
                        /\ \A k \in 1..Len(last'.calls) : last'.calls[k].command = c.id
                        /\ \E p \in ProcessCommand(
                                        CanonicalLine(last'.line, c.aliases[i], c), App) :
                               /\ p.outcome = last'.outcome
                               /\ p.output = last'.output
                               /\ p.calls = last'.calls
                               /\ p.raised = last'.raised
                               /\ p.caught = last'.caught
                               /\ p.contacts = contacts'
                               /\ p.notes = notes'
                               /\ p.nextUid = nextUid'
                               /\ AfterRaise(p.raised).pc = pc']_vars

C11_Witness ==
    /\ last.line = "an 'buy milk' Shop"
    /\ last.outcome = "Executed"
    /\ last.calls = <<Call("validate", commands["add-note"], <<"buy milk", "Shop">>, "True"),
                      Call("execute", commands["add-note"], <<"buy milk", "Shop">>, "returned")>>
    /\ notes # <<>>

\* C12: for a line whose command token is a registered name or alias of a
\* command, the command name process_command holds after parsing is that
\* command's canonical name, a key of _commands and never an alias.
C12_ParsedNameIsCanonical ==
    last.event = "line" /\ Resolved # NoCommand
        => /\ last.token = Resolved.name
           /\ last.token \in DOMAIN commands

(***************************************************************************)
(* Claims about the tokenizer                                              *)
(***************************************************************************)

RECURSIVE QuoteScan(_, _, _)
\* The tokens of a line as the specification's tokenizer tells them apart:
\* whitespace outside quotes separates tokens, a quote character opens a
\* quoted part that the next occurrence of the same character closes, and
\* the quote characters themselves are dropped. quote is the quote character
\* of the part that is open (or ""), started whether a token has begun. open
\* tells whether a quoted part is still open at the end of the line.
QuoteScan(s, i, at) ==
    LET c == CharAt(s, i)
        flushed == IF at.started THEN Append(at.parts, at.token) ELSE at.parts
    IN  IF i > Len(s) THEN [parts |-> flushed, open |-> at.quote # ""]
        ELSE IF at.quote # ""
        THEN QuoteScan(s, i + 1,
                 IF c = at.quote THEN [at EXCEPT !.quote = "", !.started = TRUE]
                 ELSE [at EXCEPT !.token = @ \o c, !.started = TRUE])
        ELSE QuoteScan(s, i + 1,
                 IF IsSpace(c)
                 THEN [at EXCEPT !.token = "", !.started = FALSE, !.parts = flushed]
                 ELSE IF IsQuote(c) THEN [at EXCEPT !.quote = c, !.started = TRUE]
                 ELSE [at EXCEPT !.token = @ \o c, !.started = TRUE])

QuoteTokens(s) ==
    QuoteScan(s, 1, [quote |-> "", token |-> "", started |-> FALSE, parts |-> <<>>])

HasChar(s, chars) == \E i \in 1..Len(s) : CharAt(s, i) \in chars

\* The line given to parse_command_input, and what it returned.
Line == call.input_text

Parsed == returned.value

\* The command name expected for a first token.
ExpectedCommand(token) ==
    IF Lower(token) \in DOMAIN call.command_aliases
    THEN call.command_aliases[Lower(token)] ELSE Lower(token)

\* line[i..j] is a token wrapped in matching quotes: it stands between
\* whitespace (or the end of the line), begins outside any quoted part and
\* after at least one other token, and its interior is free of its quote.
WrappedToken(line, i, j) ==
    /\ i < j
    /\ IsQuote(CharAt(line, i))
    /\ CharAt(line, j) = CharAt(line, i)
    /\ \A k \in (i + 1)..(j - 1) : CharAt(line, k) # CharAt(line, i)
    /\ IsSpace(CharAt(line, i - 1))
    /\ j < Len(line) => IsSpace(CharAt(line, j + 1))
    /\ ~QuoteTokens(SubSeq(line, 1, i - 1)).open
    /\ QuoteTokens(SubSeq(line, 1, i - 1)).parts # <<>>

\* C13: in a line with balanced quoting, each token wrapped in matching
\* single or double quotes becomes one argument, at the token's position,
\* whose value is the interior of the token: whitespace, the other quote
\* character and letter case are kept.
C13_QuotedTokenIsOneArgument ==
    returned # NotReturned /\ call.fn = "parse_command_input"
        /\ ~QuoteTokens(Line).open
        => \A i \in 2..Len(Line) : \A j \in (i + 1)..Len(Line) :
               WrappedToken(Line, i, j)
                   => LET k == Len(QuoteTokens(SubSeq(Line, 1, i - 1)).parts)
                      IN  /\ Len(Parsed.args) >= k
                          /\ Parsed.args[k] = SubSeq(Line, i + 1, j - 1)

\* C14: for a line whose quoting is unbalanced, parse_command_input returns
\* the whitespace split of the stripped line with the first token
\* lowercased.
C14_UnbalancedFallsBackToSplit ==
    returned # NotReturned /\ call.fn = "parse_command_input"
        /\ QuoteTokens(Line).open
        => /\ Split(Strip(Line)) # <<>>
           /\ Parsed.command = ExpectedCommand(Split(Strip(Line))[1])
           /\ Parsed.args = Tail(Split(Strip(Line)))

\* C15: for a line with no quote character, parse_command_input returns the
\* whitespace split of the line with only the first token lowercased: each
\* argument is delivered character for character, in its case and order.
C15_UnquotedLineIsSplit ==
    returned # NotReturned /\ call.fn = "parse_command_input"
        /\ ~HasChar(Line, {"'", "\""}) /\ Split(Line) # <<>>
        => /\ Parsed.command = ExpectedCommand(Split(Line)[1])
           /\ Parsed.args = Tail(Split(Line))

(***************************************************************************)
(* Claims about suggestions                                                *)
(***************************************************************************)

\* The candidates of the call, and the similarity of the query to the i-th.
Candidates == call.candidates

Similarity(i) == FuzzRatio(Lower(call.query), Lower(Candidates[i]))

\* The indices of the candidates whose lowercase form starts with the
\* lowercase query.
PrefixMatches ==
    {i \in 1..Len(Candidates) : StartsWith(Lower(Candidates[i]), Lower(call.query))}

\* The n-th smallest element of a set of indices.
NthOf(S, n) == CHOOSE i \in S : Cardinality({j \in S : j < i}) = n - 1

\* C16: when at least one candidate is a prefix match of the query,
\* get_command_suggestions returns the first min(3, k) of the k prefix
\* matches in the order they have in the candidate list, and nothing else.
C16_PrefixPass ==
    call.fn = "get_command_suggestions" /\ PrefixMatches # {}
        => /\ Len(returned.value)
                  = (IF Cardinality(PrefixMatches) < 3 THEN Cardinality(PrefixMatches) ELSE 3)
           /\ \A n \in 1..Len(returned.value) :
                  returned.value[n] = Candidates[NthOf(PrefixMatches, n)]

C16_Witness ==
    /\ call.fn = "get_command_suggestions"
    /\ call.query = "A"
    /\ Cardinality(PrefixMatches) > 3
    /\ Len(returned.value) = 3

\* The indices of the candidates whose similarity is strictly above 0.4.
AboveFloor ==
    {i \in 1..Len(Candidates) : RatioLess([num |-> 2, den |-> 5], Similarity(i))}

\* C17: when no candidate is a prefix match, get_command_suggestions returns
\* the up to 3 most similar candidates among those whose similarity is
\* strictly above 0.4, most similar first: no candidate at or below 0.4 is
\* returned and none above it is left out for a less similar one.
C17_FuzzyPass ==
    call.fn = "get_command_suggestions" /\ PrefixMatches = {}
        => /\ Len(returned.value)
                  = (IF Cardinality(AboveFloor) < 3 THEN Cardinality(AboveFloor) ELSE 3)
           /\ \E pick \in [1..Len(returned.value) -> 1..Len(Candidates)] :
                  /\ \A n, m \in DOMAIN pick : n # m => pick[n] # pick[m]
                  /\ \A n \in DOMAIN pick :
                         /\ returned.value[n] = Candidates[pick[n]]
                         /\ pick[n] \in AboveFloor
                         /\ \A m \in DOMAIN pick :
                                n < m => ~RatioLess(Similarity(pick[n]), Similarity(pick[m]))
                         /\ \A i \in 1..Len(Candidates) :
                                (\A m \in DOMAIN pick : pick[m] # i)
                                    => ~RatioLess(Similarity(pick[n]), Similarity(i))

C17_Witness ==
    /\ call.fn = "get_command_suggestions"
    /\ call.query = "hlep"
    /\ \E i \in 1..Len(Candidates) : Candidates[i] = "p"
    /\ returned.value = <<"help", "hlpe">>

\* C18: find_best_match returns a candidate of highest similarity if that
\* similarity reaches the threshold, and None otherwise, also for an empty
\* candidate list; what it returns is an element of the candidates.
C18_BestMatch ==
    call.fn = "find_best_match"
        => IF \E i \in 1..Len(Candidates) : RatioLeq(call.threshold, Similarity(i))
           THEN /\ returned.value.found
                /\ \E i \in 1..Len(Candidates) :
                       /\ Candidates[i] = returned.value.value
                       /\ \A j \in 1..Len(Candidates) :
                              RatioLeq(Similarity(j), Similarity(i))
           ELSE returned.value = NoneStr

(***************************************************************************)
(* Claims about the suggestions of the dispatcher                          *)
(***************************************************************************)

\* The message that surfaces suggestion n.
DidYouMean(n) == Msg("info", "Did you mean: " \o n \o "?")

\* The messages of the line just processed that surface a suggestion.
SuggestionMessages ==
    {j \in 1..Len(last.output) : StartsWith(last.output[j].text, "Did you mean: ")}

\* C19: every suggestion process_command surfaces for an unresolved token is
\* one of get_command_names() and is a prefix match of the token or has a
\* similarity to it strictly above 0.4; at most 3 are surfaced.
C19_SuggestionsAreNamesAboveFloor ==
    last.outcome = "Unresolved"
        => LET names == GetCommandNames(commands, aliases)
           IN  /\ Cardinality(SuggestionMessages) <= 3
               /\ \A j \in SuggestionMessages :
                      \E i \in 1..Len(names) :
                          /\ last.output[j] = DidYouMean(names[i])
                          /\ \/ StartsWith(Lower(names[i]), Lower(last.token))
                             \/ RatioLess([num |-> 2, den |-> 5],
                                          FuzzRatio(Lower(last.token), Lower(names[i])))

C19_Witness ==
    /\ last.outcome = "Unresolved"
    /\ last.line = "gen"
    /\ last.output = <<Msg("error", "Unknown command: gen"), DidYouMean("en")>>

\* C20: for an unresolved token the suggestions reported are those
\* get_command_suggestions returns for the token and get_command_names();
\* when the token is a prefix of a registered name or alias, a suggestion is
\* reported and each one reported is a prefix match.
C20_ReportsSuggestionEngine ==
    last.outcome = "Unresolved"
        => LET names == GetCommandNames(commands, aliases)
               reported == {i \in 1..Len(names) :
                               \E j \in SuggestionMessages :
                                   last.output[j] = DidYouMean(names[i])}
               partial == {i \in 1..Len(names) :
                              StartsWith(Lower(names[i]), Lower(last.token))}
           IN  /\ partial # {} => reported # {} /\ reported \subseteq partial
               /\ LET engine == GetCommandSuggestions(last.token, names)
                  IN  {names[i] : i \in reported}
                          = {engine[k] : k \in 1..Len(engine)}

(***************************************************************************)
(* Claims about the similarity score                                       *)
(***************************************************************************)

\* The characters of a string.
Chars(s) == {CharAt(s, i) : i \in 1..Len(s)}

\* C21: every similarity find_suggestions computes is a fraction between 0
\* and 1; it is 1 when query and candidate are identical ignoring case (two
\* empty strings included), 0 when exactly one of them is empty, and below
\* 0.4 when they have no character in common ignoring case.
C21_SimilarityContract ==
    call.fn = "find_suggestions"
        => \A n \in 1..Len(returned.value) :
               LET candidate == returned.value[n].candidate
                   ratio == returned.value[n].ratio
               IN  /\ ratio.den > 0 /\ 0 <= ratio.num /\ ratio.num <= ratio.den
                   /\ Lower(candidate) = Lower(call.query) => ratio.num = ratio.den
                   /\ (candidate = "") # (call.query = "") => ratio.num = 0
                   /\ Chars(Lower(candidate)) \cap Chars(Lower(call.query)) = {}
                          /\ candidate \o call.query # ""
                      => 5 * ratio.num < 2 * ratio.den

C21_Witness ==
    /\ call.fn = "find_suggestions"
    /\ call.query = "add-contact"
    /\ Len(returned.value) = 3
    /\ returned.value[2].candidate = "Add-Contact"
    /\ returned.value[2].ratio.num = returned.value[2].ratio.den
    /\ returned.value[3].candidate = "" /\ returned.value[3].ratio.num = 0

(***************************************************************************)
(* Claims about add-contact                                                *)
(***************************************************************************)

\* The arguments with which the claim says add-contact fails: no name, or
\* flags _parse_flags rejects (a non-flag argument, an unknown flag, a flag
\* lacking its value, a birthday that is no DD.MM.YYYY date), or a birthday,
\* phone or email the validators reject.
AddContactFails(command, args) ==
    \/ args = <<>>
    \/ ParseFlags(command, Tail(args)).none
    \/ LET flags == ParseFlags(command, Tail(args))
       IN  \/ flags.birthday # NoDate /\ ValidateBirthday(flags.birthday) # NoException
           \/ \E i \in 1..Len(flags.phones) : ValidatePhone(flags.phones[i]).error # NoException
           \/ \E i \in 1..Len(flags.emails) : ValidateEmail(flags.emails[i]).error # NoException

HasError(output) == \E j \in 1..Len(output) : output[j].kind = "error"

\* The execute calls the last line made on the add-contact command.
AddContactCalls(step) ==
    {i \in 1..Len(step.calls) :
        /\ step.calls[i].op = "execute"
        /\ step.calls[i].command \in 1..Len(BuiltinCommands)
        /\ BuiltinCommands[step.calls[i].command].cls = "AddContactCommand"}

ReadOnlyClasses ==
    {"ListContactsCommand", "ListNotesCommand", "SearchContactsCommand", "HelpCommand"}

\* The step processed a list, search or help line, or an unknown or empty
\* one.
SideEffectFree(step) ==
    /\ step.event = "line"
    /\ \/ step.outcome \in {"Unresolved", "NoOp"}
       \/ \E i \in 1..Len(step.calls) :
             /\ step.calls[i].op = "execute"
             /\ step.calls[i].command \in 1..Len(BuiltinCommands)
             /\ BuiltinCommands[step.calls[i].command].cls \in ReadOnlyClasses

\* process_command(line) called again right after the step that processed
\* line gives the outcome, the output and the calls it gave the first time.
SameAgain ==
    SideEffectFree(last)
        => \A p \in ProcessCommand(last.line, App) :
              /\ p.outcome = last.outcome
              /\ p.output = last.output
              /\ p.calls = last.calls
              /\ p.raised = last.raised
              /\ p.contacts = contacts
              /\ p.notes = notes

\* C22: a list, search or help line, and an unknown or empty line, leaves the
\* stored contacts and notes unchanged, and processing the same line again
\* gives the same outcome and the same messages (the same suggestions).
C22_SideEffectFreeIsIdempotent ==
    /\ []SameAgain
    /\ [][SideEffectFree(last') => contacts' = contacts /\ notes' = notes]_vars

C22_Witness ==
    /\ last.event = "line"
    /\ last.line = "sc bob"
    /\ Len(contacts) = 1
    /\ last.outcome = "Executed"
    /\ last.output = <<Msg("info", "\nFound 1 contact(s) matching 'bob':"),
                       Msg("print", "<table>")>>
    /\ \E p \in ProcessCommand(last.line, App) : p.output = last.output

(***************************************************************************)
(* Claims about the read loop                                              *)
(***************************************************************************)

\* Every call process_command made on a command has ended.
CallsEnded(step) ==
    \A i \in 1..Len(step.calls) :
        step.calls[i].result \in {"True", "False", "returned", "raised"}

\* C23: a prompt is read only at the head of the loop, after the step before
\* it has ended; a line read is processed to its end (every call made on the
\* command has returned or raised) within the step, before any other prompt;
\* Ctrl+C at the prompt prints the warning and the loop goes on to the next
\* prompt; Ctrl+D at the prompt prints Goodbye and run() returns.
C23_ReadLoopProtocol ==
    /\ [](last.event = "interrupt"
            => /\ last.loopOutput = <<Msg("warning", "\nUse 'exit' command to quit.")>>
               /\ pc = "loop")
    /\ [](last.event = "eof"
            => /\ last.loopOutput = <<Msg("info", "\nGoodbye!")>>
               /\ pc = "returned")
    /\ [][/\ pc' = "prompt" => pc = "loop"
          /\ pc = "loop" => pc' = "prompt"
          /\ pc = "prompt" => /\ pc' \in {"loop", "returned", "exited", "crashed"}
                              /\ last'.event \in {"line", "interrupt", "eof"}
                              /\ CallsEnded(last')
          /\ pc = "returned" => pc' = "returned"]_vars

C23_Witness ==
    /\ last.event = "interrupt"
    /\ pc = "loop"
    /\ notes # <<>>
    /\ contacts # <<>>

(***************************************************************************)
(* Claims about the bootstrap                                              *)
(***************************************************************************)

\* The names and aliases of the built-in commands, one entry per declaration.
BuiltinKeys(i) ==
    <<BuiltinCommands[i].name>> \o BuiltinCommands[i].aliases

RECURSIVE DeclaredKeys(_)

DeclaredKeys(n) == IF n = 0 THEN <<>> ELSE DeclaredKeys(n - 1) \o BuiltinKeys(n)

\* C24: Kontacto() registers the 24 built-in commands without a ValueError;
\* their names and aliases are pairwise distinct, each is one key of the
\* registry, and get() of every built-in name and alias is the command that
\* declares it. The application never stops before run() has started.
C24_BootstrapRegistersBuiltins ==
    LET declared == DeclaredKeys(Len(BuiltinCommands))
    IN  /\ Len(BuiltinCommands) = 24
        /\ \A i \in 1..Len(BuiltinCommands) : BuiltinCommands[i] \in succeeded
        /\ \A i, j \in 1..Len(declared) : declared[i] = declared[j] => i = j
        /\ \A i \in 1..Len(declared) : declared[i] \in DOMAIN commands \cup DOMAIN aliases
        /\ \A i \in 1..Len(BuiltinCommands) :
              \A k \in 1..Len(BuiltinKeys(i)) :
                  RegistryGet(commands, aliases, BuiltinKeys(i)[k]) = BuiltinCommands[i]
        /\ ~(pc = "crashed" /\ last.event = "none")

C24_Witness ==
    /\ pc = "constructed"
    /\ Cardinality(DOMAIN commands) = 24
    /\ Cardinality(DOMAIN aliases) = 46
    /\ RegistryGet(commands, aliases, "bye").cls = "ExitCommand"
    /\ RegistryGet(commands, aliases, "ac").name = "add-contact"

(***************************************************************************)
(* Claims about the silent return                                          *)
(***************************************************************************)

\* C25: process_command returns without any output and without any call on
\* a command only for a line that is empty or holds whitespace only.
C25_SilentOnlyForBlank ==
    last.event = "line" /\ last.outcome = "NoOp" => Strip(last.line) = ""

(***************************************************************************)
(* Claims about the registry during dispatch                               *)
(***************************************************************************)

UniqueIds(items) == \A i, j \in 1..Len(items) : items[i].id = items[j].id => i = j

\* The call the repository just answered had to be refused: add of a stored
\* id, update or delete of an id that is not stored.
Refused ==
    \/ call.fn = "add" /\ RepoExists(call.items, call.id)
    \/ call.fn \in {"update", "delete"} /\ ~RepoExists(call.items, call.id)

\* C28: in both repositories no two stored items share an id, and a call
\* that had to be refused raised ValueError and left the stored list and the
\* data file as they were.
C28_IdsUniqueAndRefusalsChangeNothing ==
    /\ UniqueIds(contacts)
    /\ UniqueIds(notes)
    /\ call.fn \in {"add", "update", "delete"} /\ Refused
           => /\ returned.raised.type = "ValueError"
              /\ RepoList(call.repo) = call.items
              /\ saved[call.repo] = call.file

C28_Witness ==
    /\ call.fn = "update"
    /\ call.repo = "notes"
    /\ call.id = 2
    /\ Len(notes) = 1
    /\ notes[1].id = 1
    /\ returned.raised.type = "ValueError"
    /\ saved.notes = SaveData(notes)

\* C30: when the notes file holds a list of dictionaries, constructing the
\* repository does not fail and load_data returns one note per dictionary,
\* with the dictionary's id, content and tags.
C30_NoteDictsAreConverted ==
    call.fn = "load_data" /\ call.files.notes.kind = "dicts"
        => /\ returned.raised = NoException
           /\ pc = "repositories"
           /\ Len(notes) = Len(call.files.notes.items)
           /\ \A i \in 1..Len(notes) :
                  LET d == call.files.notes.items[i]
                  IN  /\ notes[i].id = d.id
                      /\ notes[i].content = d.content
                      /\ notes[i].tags = {d.tags[k] : k \in 1..Len(d.tags)}

(***************************************************************************)
(* Claims about edit-contact                                               *)
(***************************************************************************)

\* C27: when edit-contact, called with a name, a field and a value, prints an
\* error, the stored contacts are as they were before the call (name,
\* address, phones, emails and birthday of each) and the data file was not
\* written.
C27_EditErrorChangesNothing ==
    (/\ call.fn = "edit-contact"
     /\ returned.returned
     /\ Len(call.args) >= 3
     /\ HasError(returned.output))
        => /\ contacts = call.contacts
           /\ saved.contacts = call.file

====
